---- MODULE Spec2Model ----
(***************************************************************************)
(* Case-study presentation generator: slide filter, AI selection,         *)
(* placeholder formatting, title wrapping, request pipeline and the       *)
(* per-slide shape mutation, each as a state machine over its own         *)
(* variables.  A component that is not running keeps its idle values.     *)
(***************************************************************************)
EXTENDS Integers, Sequences, FiniteSets, TLC

VARIABLES
    \* ---- core._filter_slides
    fpc,          \* position in _filter_slides: "idle" | "start" | "loop" | "done"
    template,     \* the slide list of the template as opened (slide = its index)
    sldIdLst,     \* prs.slides._sldIdLst
    rels,         \* relationships of prs.part that point to slides
    num_cases,    \* the num_cases argument
    idx,          \* loop index of `for idx in reversed(range(len(...)))`
    \* ---- ai_selector.select_case_studies and its call sites
    spc,              \* "idle" | "call" | "candidates" | "ask" | "answered" | "done" | "raised"
    caller,           \* "cli" (cli.main) | "workflow" | "to_memory" (core)
    case_studies,     \* the loaded record list
    cases_to_use,     \* the candidate list the prompt enumerates
    selected_indices, \* result["selected_indices"] of the AI response
    selected,         \* the records returned; the argument of format_selected_for_pptx
    error,            \* exception raised, "none" if none
    \* ---- ai_selector.format_selected_for_pptx
    fmpc,             \* "idle" | "reserve" | "fill" | "logos" | "returned" | "raised"
    all_cases,        \* what get_case_studies() loads for the similarity lookups
    placeholders,     \* the table under construction
    used_images,
    used_metrics,
    used_logos,
    available_logos,  \* _get_available_logos(): stems of Logos/*.svg
    env_api_key,      \* os.getenv("OPENAI_API_KEY") is set
    fi,               \* the `i` of `for i, cs in enumerate(selected, 1)`
    lookups,          \* per filled slot, how its image and metric lookups ended
    \* ---- pptx_generator._wrap_text_to_lines
    wpc,              \* "idle" | "start" | "segments" | "truncate" | "done"
    title_text,       \* the text argument
    width_emu,
    font_size_pt,     \* 0 stands for None
    char_limit,
    segments,         \* what is left of text.split('\n')
    wrapped_lines,
    truncated,
    \* ---- pptx_generator._replace_in_shapes, one call
    shpc,             \* "idle" | "text" | "remove" | "insert" | "cleanup" | "logos" |
                      \* "layout" | "returned" | "aborted"
    slide_idx,
    n_text,           \* shapes the text loop visits
    n_images,         \* len(images_to_add) = len(shapes_to_remove)
    n_logos,          \* logo placeholders that are replaced
    sk,               \* position in the running loop
    done_ops,         \* shape-level operations that completed
    skipped_ops,      \* shape-level operations that threw and were caught
    temp_files,       \* the temp_files list
    created,          \* temporary files made by tempfile.mkstemp
    unlinked,         \* temporary files os.unlink was called on
    \* ---- api.app.generate_presentation
    rpc,              \* "idle" | "received" | "generate" | "respond" | "responded"
    request,          \* the validated GenerateRequest
    env,              \* credential, files and AI behaviour of the deployment
    outcome,          \* what generate_presentation_to_memory did
    response,         \* the HTTP response
    \* ---- one run of an entry point, stage by stage
    runpc,            \* "idle" | "running" | "failed" | "done"
    entry,            \* "api" | "to_memory" | "workflow" | "cli"
    conf,             \* credential, files, AI answer and template of the run
    stage_no,         \* position of the next stage in the entry's plan
    trace,            \* the stages that completed, in order
    result,           \* the error that ended the run and the document it left
    \* ---- _align_metrics_with_labels on one slide
    mpc,              \* "idle" | "loop" | "delete" | "returned"
    m_slide_idx,      \* slide_idx of the call
    metric_shapes,    \* the shapes named n1..n6: number, paragraphs of runs, width
    label_shapes,     \* the shapes named metric_label_case_study_N: text, width, on the slide
    mk,               \* position in metric_shapes / shapes_to_delete
    shapes_to_delete, \* numbers of the label shapes marked for deletion
    merges,           \* per merged metric: its number, the estimated and the allowed width
    \* ---- _replace_in_text_frame on one paragraph
    sbpc,             \* "idle" | "start" | "done"
    sb_slide_idx,     \* slide_idx of the call
    sb_table,         \* placeholders, in key order: <<key, value>> pairs
    sb_runs,          \* the runs of the paragraph: text and font size
    sb_runs0,         \* the runs the paragraph had before the call
    \* ---- _align_title_line_description, the description of one slot
    alpc,             \* "idle" | "start" | "done"
    al_title,         \* the slot has a title shape
    al_line,          \* the slot has a divider line
    al_paragraphs,    \* the description: paragraphs of runs (length, size)
    al_paragraphs0,   \* the description before the call
    \* ---- _replace_in_shapes, the case study images of one slide
    impc,             \* "idle" | "match" | "remove" | "insert" | "done"
    im_slide_idx,     \* slide_idx of the call
    im_values,        \* the values of case_study_k_image, k = 1, 2, ...
    im_files,         \* per image path: "ok" | "missing" | "unreadable"
    im_shapes,        \* the picture shapes of the slide, in slide order
    im_shapes0,       \* the picture shapes before the call
    images_to_add,    \* the pictures still to insert
    shapes_to_remove, \* the placeholders to remove
    \* ---- one similarity lookup of each kind
    lkpc,             \* "idle" | "metric" | "image" | "done"
    lk_cases,         \* all_cases
    lk_answer,        \* what the completion answers
    lk_metric,        \* the result of _find_similar_company_metric
    lk_image          \* the result of _find_similar_company_image

filterVars == <<fpc, template, sldIdLst, rels, idx>>
selectVars == <<spc, caller, case_studies, cases_to_use, selected_indices>>
formatVars == <<fmpc, all_cases, placeholders, used_images, used_metrics, used_logos,
                available_logos, env_api_key, fi, lookups>>

wrapVars == <<wpc, title_text, width_emu, font_size_pt, char_limit, segments, wrapped_lines,
              truncated>>
pipelineVars == <<filterVars, num_cases, selectVars, selected, error, formatVars>>
shapeVars == <<shpc, slide_idx, n_text, n_images, n_logos, sk, done_ops, skipped_ops,
               temp_files, created, unlinked>>
renderVars == <<wrapVars, shapeVars>>
requestVars == <<rpc, request, env, outcome, response>>

runVars == <<runpc, entry, conf, stage_no, trace, result>>

metricVars == <<mpc, m_slide_idx, metric_shapes, label_shapes, mk, shapes_to_delete,
                merges>>
substVars == <<sbpc, sb_slide_idx, sb_table, sb_runs, sb_runs0>>
alignVars == <<alpc, al_title, al_line, al_paragraphs, al_paragraphs0>>
imageVars == <<impc, im_slide_idx, im_values, im_files, im_shapes, im_shapes0, images_to_add, shapes_to_remove>>
lookupVars == <<lkpc, lk_cases, lk_answer, lk_metric, lk_image>>
laterVars == <<metricVars, substVars, alignVars, imageVars, lookupVars>>
baseVars == <<pipelineVars, renderVars, requestVars, runVars>>

vars == <<baseVars, laterVars>>

\* what each component leaves alone
notFilter == <<selectVars, selected, error, formatVars, renderVars, requestVars, runVars, laterVars>>
notSelect == <<filterVars, formatVars, renderVars, requestVars, runVars, laterVars>>
notFormat == <<filterVars, selectVars, num_cases, renderVars, requestVars, runVars, laterVars>>
notWrap == <<pipelineVars, shapeVars, requestVars, runVars, laterVars>>
notShapes == <<pipelineVars, wrapVars, requestVars, runVars, laterVars>>
notRequest == <<pipelineVars, renderVars, runVars, laterVars>>
notRun == <<pipelineVars, renderVars, requestVars, laterVars>>
notMetrics == <<baseVars, substVars, alignVars, imageVars, lookupVars>>
notSubst == <<baseVars, metricVars, alignVars, imageVars, lookupVars>>
notAlign == <<baseVars, metricVars, substVars, imageVars, lookupVars>>
notImages == <<baseVars, metricVars, substVars, alignVars, lookupVars>>
notLookup == <<baseVars, metricVars, substVars, alignVars, imageVars>>

\* ------------------------------------------------------------ helpers

Range(s) == {s[i] : i \in DOMAIN s}

\* s with the element at 1-based position p removed (Python: del s[p-1])
RemoveAt(s, p) == [i \in 1..(Len(s) - 1) |-> IF i < p THEN s[i] ELSE s[i + 1]]

\* ------------------------------------------------------------ idle values

FilterIdle ==
    /\ fpc = "idle"
    /\ template = <<>>
    /\ sldIdLst = <<>>
    /\ rels = {}
    /\ idx = 0

SelectIdle ==
    /\ spc = "idle"
    /\ caller = "none"
    /\ case_studies = <<>>
    /\ cases_to_use = <<>>
    /\ selected_indices = <<>>

FormatIdle ==
    /\ fmpc = "idle"
    /\ all_cases = <<>>
    /\ placeholders = <<>>
    /\ used_images = {}
    /\ used_metrics = {}
    /\ used_logos = {}
    /\ available_logos = <<>>
    /\ env_api_key = FALSE
    /\ fi = 0
    /\ lookups = <<>>

WrapIdle ==
    /\ wpc = "idle"
    /\ title_text = <<>>
    /\ width_emu = 0
    /\ font_size_pt = 0
    /\ char_limit = 0
    /\ segments = <<>>
    /\ wrapped_lines = <<>>
    /\ truncated = FALSE

ShapesIdle ==
    /\ shpc = "idle"
    /\ slide_idx = 0
    /\ n_text = 0
    /\ n_images = 0
    /\ n_logos = 0
    /\ sk = 0
    /\ done_ops = {}
    /\ skipped_ops = {}
    /\ temp_files = <<>>
    /\ created = {}
    /\ unlinked = {}

RenderIdle == WrapIdle /\ ShapesIdle

NoRequest == [company_name |-> <<>>, presentation_type |-> 0]
NoEnv == [api_key |-> FALSE, data_exists |-> FALSE, template_exists |-> FALSE,
          qualifying |-> 0, slides |-> 0, ai_count |-> 0]
NoOutcome == [kind |-> "none", slides |-> 0]
NoResponse == [status |-> 0, filename |-> <<>>, slides |-> 0]

RequestIdle ==
    /\ rpc = "idle"
    /\ request = NoRequest
    /\ env = NoEnv
    /\ outcome = NoOutcome
    /\ response = NoResponse

NoConf == [api_key |-> FALSE, data_exists |-> FALSE, template_exists |-> FALSE,
           ai_count |-> 0, picked |-> FALSE, shape_throws |-> FALSE]
NoResult == [error |-> "none", document |-> "none"]

RunIdle ==
    /\ runpc = "idle"
    /\ entry = "none"
    /\ conf = NoConf
    /\ stage_no = 0
    /\ trace = <<>>
    /\ result = NoResult

MetricsIdle ==
    /\ mpc = "idle"
    /\ m_slide_idx = 0
    /\ metric_shapes = <<>>
    /\ label_shapes = <<>>
    /\ mk = 0
    /\ shapes_to_delete = <<>>
    /\ merges = <<>>

SubstIdle ==
    /\ sbpc = "idle"
    /\ sb_slide_idx = 0
    /\ sb_table = <<>>
    /\ sb_runs = <<>>
    /\ sb_runs0 = <<>>

AlignIdle ==
    /\ alpc = "idle"
    /\ al_title = FALSE
    /\ al_line = FALSE
    /\ al_paragraphs = <<>>
    /\ al_paragraphs0 = <<>>

ImagesIdle ==
    /\ impc = "idle"
    /\ im_slide_idx = 0
    /\ im_values = <<>>
    /\ im_files = <<>>
    /\ im_shapes = <<>>
    /\ im_shapes0 = <<>>
    /\ images_to_add = <<>>
    /\ shapes_to_remove = {}

LookupIdle ==
    /\ lkpc = "idle"
    /\ lk_cases = <<>>
    /\ lk_answer = [kind |-> "raise", n |-> 0]
    /\ lk_metric = [ok |-> FALSE, value |-> <<>>, label |-> <<>>]
    /\ lk_image = [ok |-> FALSE, value |-> <<>>, label |-> <<>>]

LaterIdle == MetricsIdle /\ SubstIdle /\ AlignIdle /\ ImagesIdle /\ LookupIdle

\* every later component but one at rest
LaterIdleBut(c) ==
    /\ (c = "Metrics" \/ MetricsIdle)
    /\ (c = "Subst" \/ SubstIdle)
    /\ (c = "Align" \/ AlignIdle)
    /\ (c = "Images" \/ ImagesIdle)
    /\ (c = "Lookup" \/ LookupIdle)

PipelineIdle ==
    /\ FilterIdle
    /\ SelectIdle
    /\ FormatIdle
    /\ num_cases = 0
    /\ selected = <<>>
    /\ error = "none"

BaseIdle == PipelineIdle /\ RenderIdle /\ RequestIdle /\ RunIdle

\* ------------------------------------------------------------ bounds

MaxSlides == 5
MaxCases == 4

\* ============================================================
\* core._filter_slides
\* ============================================================

\* values of num_cases the callers can pass (the API admits 0, 1, 2, 4;
\* the workflow passes any integer through)
NumCasesInputs == {0, 1, 2, 3, 4}

\* a faulty table, sizes 1 and 2 swapped: C1 must not hold with it
SlidesToKeep_keepsWrongIndex(n) ==
    CASE n = 1 -> {1}
      [] n = 2 -> {2}
      [] n = 4 -> {0}
      [] OTHER -> {}

\* {1: [2], 2: [1], 4: [0]}.get(num_cases, [])
SlidesToKeep(n) ==
    CASE n = 1 -> {2}
      [] n = 2 -> {1}
      [] n = 4 -> {0}
      [] OTHER -> {}

\* a template of L slides; slide i (0-based) is identified by i, its rId too
InitFilter ==
    /\ fpc = "start"
    /\ \E L \in 0..MaxSlides :
          /\ template = [i \in 1..L |-> i - 1]
          /\ sldIdLst = [i \in 1..L |-> i - 1]
          /\ rels = {i - 1 : i \in 1..L}
    /\ num_cases \in NumCasesInputs
    /\ idx = 0
    /\ SelectIdle
    /\ selected = <<>>
    /\ error = "none"
    /\ FormatIdle
    /\ RenderIdle
    /\ RequestIdle
    /\ RunIdle
    /\ LaterIdle

\* if num_cases == 0: return
FilterKeepAll ==
    /\ fpc = "start"
    /\ num_cases = 0
    /\ fpc' = "done"
    /\ UNCHANGED <<template, sldIdLst, rels, num_cases, idx, notFilter>>

\* entering the loop: idx takes the last index of the list
FilterEnterLoop ==
    /\ fpc = "start"
    /\ num_cases # 0
    /\ fpc' = IF Len(sldIdLst) = 0 THEN "done" ELSE "loop"
    /\ idx' = Len(sldIdLst) - 1
    /\ UNCHANGED <<template, sldIdLst, rels, num_cases, notFilter>>

\* one iteration: drop the relationship and the list entry of a slide
\* whose index is not kept
FilterStep ==
    /\ fpc = "loop"
    /\ IF idx \notin SlidesToKeep(num_cases)
         THEN /\ rels' = rels \ {sldIdLst[idx + 1]}
              /\ sldIdLst' = RemoveAt(sldIdLst, idx + 1)
         ELSE UNCHANGED <<rels, sldIdLst>>
    /\ idx' = idx - 1
    /\ fpc' = IF idx = 0 THEN "done" ELSE "loop"
    /\ UNCHANGED <<template, num_cases, notFilter>>

NextFilter == FilterKeepAll \/ FilterEnterLoop \/ FilterStep

SpecFilter == InitFilter /\ [][NextFilter]_vars

\* ------------------------------------------------------------
\* C1: on a template with slides at indices 0, 1, 2 (or more), the filter
\* leaves exactly slide 2 for size 1, slide 1 for size 2, slide 0 for
\* size 4, and every slide in template order for size 0; the slide
\* relationships left are those of the slides left.
C1_FilterKeepsMappedSlide ==
    (fpc = "done" /\ Len(template) >= 3) =>
        /\ (num_cases = 1 => sldIdLst = <<2>>)
        /\ (num_cases = 2 => sldIdLst = <<1>>)
        /\ (num_cases = 4 => sldIdLst = <<0>>)
        /\ (num_cases = 0 => sldIdLst = template)
        /\ rels = Range(sldIdLst)

C1_Witness ==
    /\ fpc = "done"
    /\ template = <<0, 1, 2>>
    /\ num_cases = 1
    /\ sldIdLst = <<2>>

\* C30: when the filter is done with a template that had slides, at
\* least one slide is left.
C30_NeverZeroSlides ==
    (fpc = "done" /\ Len(template) >= 1) => Len(sldIdLst) >= 1

\* ============================================================
\* ai_selector.select_case_studies, called from cli.main and from core
\* ============================================================

\* def select_case_studies(case_studies, company_name, company_description, api_key)
SelectParams == {"case_studies", "company_name", "company_description", "api_key"}

\* the arguments each call site passes: four positionals everywhere, and
\* core adds the keyword num_cases=...
CallKeywords(c) == IF c = "cli" THEN {} ELSE {"num_cases"}

\* Python binds a call only if every keyword names a parameter
CallBinds(c) == CallKeywords(c) \subseteq SelectParams

\* the count the selector checks the answer against: `!= 4`
ExpectedSelections == 4

\* a record carries structured data: 'challenges', 'solutions' and 'impacts'
HasCSI(cs) == cs.csi

\* [cs for cs in case_studies if 'challenges' in cs and ...]
RECURSIVE FilterCSI(_)
FilterCSI(cases) ==
    IF cases = <<>> THEN <<>>
    ELSE IF HasCSI(Head(cases)) THEN <<Head(cases)>> \o FilterCSI(Tail(cases))
         ELSE FilterCSI(Tail(cases))

\* if len(csi_cases) < 4: cases_to_use = case_studies else csi_cases
CasesToUse(cases) ==
    IF Len(FilterCSI(cases)) < 4 THEN cases ELSE FilterCSI(cases)

\* Python list indexing cases[i]: negative i counts from the end
InIndexRange(cases, i) == -Len(cases) <= i /\ i < Len(cases)
PyIndex(cases, i) == IF i >= 0 THEN cases[i + 1] ELSE cases[Len(cases) + i + 1]

\* the indices the comprehension reads: `for i in selected_indices if i < len(cases_to_use)`
KeptIndices(indices, cases) == SelectSeq(indices, LAMBDA i : i < Len(cases))

\* [cases_to_use[i] for i in selected_indices if i < len(cases_to_use)]
PickCases(indices, cases) ==
    [k \in 1..Len(KeptIndices(indices, cases)) |-> PyIndex(cases, KeptIndices(indices, cases)[k])]

PickRaises(indices, cases) ==
    \E k \in 1..Len(KeptIndices(indices, cases)) :
        ~InIndexRange(cases, KeptIndices(indices, cases)[k])

\* index values an answer may hold: in range, one past the list, negative
IndexValues == -1..MaxCases

\* answers of the AI: any list of up to ExpectedSelections + 1 indices
Answers == UNION {[1..n -> IndexValues] : n \in 0..(ExpectedSelections + 1)}

\* record lists: position is identity, csi is whether the record carries
\* structured challenge/solution/impact data
CaseLists ==
    UNION {{[i \in 1..n |-> [id |-> i - 1, csi |-> f[i]]] : f \in [1..n -> BOOLEAN]}
              : n \in 0..MaxCases}

InitSelect ==
    /\ spc = "call"
    /\ caller \in {"cli", "workflow", "to_memory"}
    /\ num_cases \in IF caller = "cli" THEN {4} ELSE {0, 1, 2, 4}
    /\ case_studies \in CaseLists
    /\ cases_to_use = <<>>
    /\ selected_indices = <<>>
    /\ selected = <<>>
    /\ error = "none"
    /\ FilterIdle
    /\ FormatIdle
    /\ RenderIdle
    /\ RequestIdle
    /\ RunIdle
    /\ LaterIdle

\* the call itself: TypeError when a keyword names no parameter
SelectBind ==
    /\ spc = "call"
    /\ IF CallBinds(caller)
         THEN spc' = "candidates" /\ error' = error
         ELSE spc' = "raised" /\ error' = "TypeError"
    /\ UNCHANGED <<caller, case_studies, cases_to_use, selected_indices, selected,
                   num_cases, notSelect>>

\* lines 17-30: the candidate list and the prompt
SelectCandidates ==
    /\ spc = "candidates"
    /\ cases_to_use' = CasesToUse(case_studies)
    /\ spc' = "ask"
    /\ UNCHANGED <<caller, case_studies, selected_indices, selected, error,
                   num_cases, notSelect>>

\* lines 32-42: the completion request and its parsed answer
SelectAskAI ==
    /\ spc = "ask"
    /\ \E answer \in Answers : selected_indices' = answer
    /\ spc' = "answered"
    /\ UNCHANGED <<caller, case_studies, cases_to_use, selected, error,
                   num_cases, notSelect>>

\* lines 44-47: the count check and the returned list
SelectFinish ==
    /\ spc = "answered"
    /\ IF Len(selected_indices) # ExpectedSelections
         THEN spc' = "raised" /\ error' = "ValueError" /\ selected' = selected
         ELSE IF PickRaises(selected_indices, cases_to_use)
                THEN spc' = "raised" /\ error' = "IndexError" /\ selected' = selected
                ELSE /\ spc' = "done"
                     /\ error' = error
                     /\ selected' = PickCases(selected_indices, cases_to_use)
    /\ UNCHANGED <<caller, case_studies, cases_to_use, selected_indices,
                   num_cases, notSelect>>

NextSelect == SelectBind \/ SelectCandidates \/ SelectAskAI \/ SelectFinish

SpecSelect == InitSelect /\ [][NextSelect]_vars

\* the requested count: the caller's num_cases, 4 when it is 0 (core.py:76);
\* cli.main asks for 4
RequestedCount == IF num_cases > 0 THEN num_cases ELSE 4

SelectOver == spc \in {"done", "raised"}

\* ------------------------------------------------------------
\* C2: for a requested count N in {1, 2, 4}, an answer whose index list
\* has a length other than N makes the selection step fail with the
\* validation error, and no selection is returned.
C2_CountMismatchFails ==
    (SelectOver /\ num_cases \in {1, 2, 4} /\ Len(selected_indices) # num_cases) =>
        (spc = "raised" /\ error = "ValueError" /\ selected = <<>>)

\* ------------------------------------------------------------
\* C3: an answer that passes validation yields exactly the requested
\* number of records, taken from pairwise distinct positions of the
\* candidate list.
C3_ValidatedGivesDistinct ==
    (SelectOver /\ error \notin {"TypeError", "ValueError"}) =>
        /\ spc = "done"
        /\ Len(selected) = RequestedCount
        /\ \A i, j \in 1..Len(selected) : i # j => selected[i].id # selected[j].id

\* the candidate list the requested count calls for: the records with
\* structured data when at least that many exist, else the full list
CandidatesFor(cases, n) ==
    IF Len(FilterCSI(cases)) >= n THEN FilterCSI(cases) ELSE cases

\* ------------------------------------------------------------
\* C17: for every requested count N the selector's candidates are the
\* records with structured data when at least N of them exist and the
\* full list otherwise, and the returned records are read from that
\* list.
C17_CandidateSet ==
    SelectOver =>
        /\ cases_to_use = CandidatesFor(case_studies, RequestedCount)
        /\ spc = "done" =>
              selected = PickCases(selected_indices,
                                   CandidatesFor(case_studies, RequestedCount))

\* ============================================================
\* strings
\* ============================================================
\* A string is a sequence of characters.  A few multi-character units
\* whose inner characters no code path reads one by one (a file name, the
\* "images/" prefix, a section label such as "Challenge:", a fixed default
\* text) are single elements.

\* the value of a key the record does not hold
Absent == <<"(absent)">>

\* cs.get(f, default)
Get(cs, f, default) == IF cs[f] = Absent THEN default ELSE cs[f]

\* Python truthiness of cs.get(f) / cs.get(f, '')
Truthy(v) == v # Absent /\ v # <<>>

Whitespace == {" ", "\n", "\t"}
Digits == {"0", "1", "2", "3", "4", "5", "6", "7", "8", "9"}

\* str.lstrip(), str.rstrip(), str.strip()
RECURSIVE LStrip(_)
LStrip(s) == IF s # <<>> /\ Head(s) \in Whitespace THEN LStrip(Tail(s)) ELSE s

RECURSIVE RStripChars(_, _)
RStripChars(s, chars) ==
    IF s # <<>> /\ s[Len(s)] \in chars THEN RStripChars(SubSeq(s, 1, Len(s) - 1), chars) ELSE s

Strip(s) == RStripChars(LStrip(s), Whitespace)

\* str.isdigit(): non-empty and digits only
IsDigitStr(s) == s # <<>> /\ \A k \in DOMAIN s : s[k] \in Digits

\* s.replace(c, '') for every c of chars
RemoveChars(s, chars) == SelectSeq(s, LAMBDA c : c \notin chars)

\* str.endswith(c)
EndsWith(s, c) == s # <<>> /\ s[Len(s)] = c

\* str.ljust(width): padded with spaces on the right
Ljust(s, width) == s \o [k \in 1..(width - Len(s)) |-> " "]

\* str.upper() on the letters the records use
UpperChar(c) ==
    CASE c = "h" -> "H"
      [] c = "t" -> "T"
      [] OTHER -> c

Upper(s) == [k \in DOMAIN s |-> UpperChar(s[k])]

\* str.split()[0]: the first whitespace-separated word
RECURSIVE TakeWord(_)
TakeWord(s) ==
    IF s = <<>> \/ Head(s) \in Whitespace THEN <<>> ELSE <<Head(s)>> \o TakeWord(Tail(s))

FirstWord(s) == TakeWord(LStrip(s))

\* ============================================================
\* config.py
\* ============================================================

\* TEMPLATE_CONFIG: config key -> token pattern
TEMPLATE_CONFIG ==
    [k \in {"slide_title", "slide_subtitle", "4_cases_title", "slide_number",
            "case_study_name", "case_study_title", "case_study_description",
            "case_study_image", "case_study_metric", "metric_label",
            "case_study_category", "tab_label",
            "case_study_challenge", "case_study_solution", "case_study_impact",
            "case_study_name_slide3", "case_study_category_slide3", "metric_label_slide3",
            "challenge", "solution_intro", "solution", "impact",
            "company_name", "company_description", "generation_date"} |->
        CASE k = "slide_title" -> "slide_case_studies_title"
          [] k = "slide_subtitle" -> "slide_case_studies_subtitle"
          [] k = "4_cases_title" -> "4_cases_title"
          [] k = "slide_number" -> "sn"
          [] k = "case_study_name" -> "case_study_{n}_name"
          [] k = "case_study_title" -> "case_study_{n}_title"
          [] k = "case_study_description" -> "case_study_{n}_description"
          [] k = "case_study_image" -> "case_study_{n}_image"
          [] k = "case_study_metric" -> "n{n}"
          [] k = "metric_label" -> "metric_label_case_study_{n}"
          [] k = "case_study_category" -> "case_study_{n}_category"
          [] k = "tab_label" -> "tab_{n}_label"
          [] k = "case_study_challenge" -> "case_study_{n}_challenge_{x}"
          [] k = "case_study_solution" -> "case_study_{n}_solution_{x}"
          [] k = "case_study_impact" -> "case_study_{n}_impact_{x}"
          [] k = "case_study_name_slide3" -> "case_study_name"
          [] k = "case_study_category_slide3" -> "case_study_category"
          [] k = "metric_label_slide3" -> "metric_label_case_study"
          [] k = "challenge" -> "challenge_{x}"
          [] k = "solution_intro" -> "solution_intro"
          [] k = "solution" -> "solution_{x}"
          [] k = "impact" -> "impact_{x}"
          [] k = "company_name" -> "company_name"
          [] k = "company_description" -> "company_description"
          [] OTHER -> "generation_date"]

\* TEMPLATE_CONFIG[key] raises KeyError for a key the table does not hold
ConfigHas(key) == key \in DOMAIN TEMPLATE_CONFIG

\* TEMPLATE_CONFIG[key].format(n=n, x=x): the pattern with its numbers
\* (0 where the pattern has no such field)
Token(key, n, x) == <<TEMPLATE_CONFIG[key], n, x>>

DEFAULT_SUBTITLE == <<"Selected Case Studies">>
DEFAULT_4_CASES_TITLE == <<"4 Selected Case Studies">>
DEFAULT_IMAGE_PLACEHOLDER == <<"[Image placeholder]">>
DEFAULT_METRIC_PLACEHOLDER == <<"-">>
CategoryDefault == <<"TECHNOLOGY">>
MAX_TITLE_LENGTH == 60

\* the two dashes that stand for "no metric": ['—', '-']
EmDash == <<"{em-dash}">>
Dashes == {EmDash, <<"-">>}

\* f"images/{image_file}" and f"Logos/{matched_logo}.svg"
ImagePath(image_file) == <<"images/">> \o image_file
LogoPath(logo) == <<"Logos/">> \o logo \o <<".svg">>

\* placeholders[key] = value
Put(table, key, value) ==
    [t \in DOMAIN table \cup {key} |-> IF t = key THEN value ELSE table[t]]

RECURSIVE PutAll(_, _)
PutAll(table, pairs) ==
    IF pairs = <<>> THEN table
    ELSE PutAll(Put(table, Head(pairs)[1], Head(pairs)[2]), Tail(pairs))

\* ============================================================
\* ai_selector.format_selected_for_pptx
\* ============================================================

\* the answer of a similarity or logo completion: the call raises or the
\* text is no integer ("raise"), or the text is the integer n
LookupAnswers(limit) ==
    {[kind |-> "raise", n |-> 0]} \cup {[kind |-> "number", n |-> k] : k \in 0..limit}

\* openai.OpenAI(api_key=os.getenv("OPENAI_API_KEY")) raises inside the try
\* when the variable is not set
AnswersWith(key_set, limit) ==
    IF key_set THEN LookupAnswers(limit) ELSE {[kind |-> "raise", n |-> 0]}

NoMatch == [ok |-> FALSE, value |-> <<>>, label |-> <<>>]

\* available_cases of _find_similar_company_metric
MetricCandidates(cases, used) ==
    SelectSeq(cases, LAMBDA cs : /\ Truthy(cs.metric)
                                 /\ cs.metric \notin Dashes
                                 /\ cs.metric \notin used)

\* available_cases of _find_similar_company_image
ImageCandidates(cases, used) ==
    SelectSeq(cases, LAMBDA cs : Truthy(cs.image_file) /\ cs.image_file \notin used)

\* selected_idx = int(selection) - 1; if 0 <= selected_idx < len(available): ...
AnswerPicks(answer, available) ==
    /\ answer.kind = "number"
    /\ 0 <= answer.n - 1
    /\ answer.n - 1 < Len(available)

\* _find_similar_company_metric: (metric, metric_label) or (None, None)
FindSimilarMetric(cases, used, answer) ==
    LET available == MetricCandidates(cases, used) IN
    IF available = <<>> THEN NoMatch
    ELSE IF AnswerPicks(answer, available)
           THEN [ok |-> TRUE, value |-> available[answer.n].metric,
                 label |-> Get(available[answer.n], "metric_label", <<>>)]
           ELSE NoMatch

\* _find_similar_company_image: image_file or None
FindSimilarImage(cases, used, answer) ==
    LET available == ImageCandidates(cases, used) IN
    IF available = <<>> THEN NoMatch
    ELSE IF AnswerPicks(answer, available)
           THEN [ok |-> TRUE, value |-> available[answer.n].image_file, label |-> <<>>]
           ELSE NoMatch

\* _match_logo_to_case_study: a logo name or None
MatchLogo(remaining, answer) ==
    IF remaining = <<>> THEN NoMatch
    ELSE IF AnswerPicks(answer, remaining)
           THEN [ok |-> TRUE, value |-> remaining[answer.n], label |-> <<>>]
           ELSE NoMatch

\* how a lookup ended: not made ("none": the record has its own value,
\* "empty": nothing left to borrow, the function returns before the
\* call), "raised" (the call or int() throws inside the try),
\* "out_of_range" (the number picks no candidate), "ok"
LookupOutcome(needed, available, answer) ==
    IF ~needed THEN "none"
    ELSE IF available = <<>> THEN "empty"
    ELSE IF answer.kind = "raise" THEN "raised"
    ELSE IF AnswerPicks(answer, available) THEN "ok"
    ELSE "out_of_range"

\* a faulty normalization, "+" after every real metric: C5 must not hold
\* with it
AddPlus_always(raw_metric) ==
    IF raw_metric # <<>> /\ raw_metric \notin ({DEFAULT_METRIC_PLACEHOLDER} \cup Dashes)
      THEN raw_metric \o <<"+">>
      ELSE raw_metric

\* lines 159-164: "+" after a pure number (K, M, '.', ',' set aside)
AddPlus(raw_metric) ==
    IF /\ raw_metric # <<>>
       /\ raw_metric \notin ({DEFAULT_METRIC_PLACEHOLDER} \cup Dashes)
       /\ IsDigitStr(RemoveChars(raw_metric, {"K", "M", ".", ","}))
       /\ ~EndsWith(raw_metric, "+")
      THEN raw_metric \o <<"+">>
      ELSE raw_metric

\* lines 142-155: the record's metric, or a borrowed one, or the default
NeedsMetricLookup(cs) == ~Truthy(cs.metric) \/ cs.metric \in Dashes

\* a faulty fallback that keeps the record's own value when nothing was
\* borrowed: C15 must not hold with it
RawMetric_keepsOwn(cs, similar) ==
    IF NeedsMetricLookup(cs) /\ similar.ok THEN similar.value ELSE cs.metric

\* lines 143-157: the record's metric, the borrowed one, or the default
RawMetric(cs, similar) ==
    IF NeedsMetricLookup(cs)
      THEN IF similar.ok THEN similar.value ELSE DEFAULT_METRIC_PLACEHOLDER
      ELSE cs.metric

\* lines 106-108
TitleOf(cs) ==
    LET title == Strip(Get(cs, "title", cs.deal_title)) IN
    IF Len(title) > MAX_TITLE_LENGTH
      THEN SubSeq(title, 1, MAX_TITLE_LENGTH - 3) \o <<".", ".", ".">>
      ELSE title

\* _clean_description: re.sub(r'(Challenge|Solution|Impact):\s*', '', description).strip()
SectionLabels == {"Challenge:", "Solution:", "Impact:"}

RECURSIVE DropLabels(_)
DropLabels(s) ==
    IF s = <<>> THEN <<>>
    ELSE IF Head(s) \in SectionLabels THEN DropLabels(LStrip(Tail(s)))
         ELSE <<Head(s)>> \o DropLabels(Tail(s))

CleanDescription(description) == Strip(DropLabels(description))

\* line 173: ("     " + metric_label).ljust(45)
LabelIndent == 5
LabelWidth == 45
NormalizedLabel(metric_label) == Ljust([k \in 1..LabelIndent |-> " "] \o metric_label, LabelWidth)

\* line 183: cs['org'].split()[0] if cs['org'] else f"Case {i}"
TabLabelRaises(cs) == cs.org # <<>> /\ FirstWord(cs.org) = <<>>
TabLabel(cs, i) == IF cs.org # <<>> THEN FirstWord(cs.org) ELSE <<"Case ", ToString(i)>>

\* a faulty first pass that reserves nothing, so that only what was
\* formatted or borrowed so far is kept from later lookups: C26 must not
\* hold with it
OwnImages_none(sel) == {}

\* lines 88-96: the images and real metrics the selected records carry
OwnImages(sel) == {sel[k].image_file : k \in {j \in DOMAIN sel : Truthy(sel[j].image_file)}}

OwnMetrics(sel) ==
    {sel[k].metric : k \in {j \in DOMAIN sel : /\ Truthy(sel[j].metric)
                                                /\ sel[j].metric \notin Dashes}}

\* cs['metric_label'] = similar_label: the record is one object, however
\* many times the list holds it
SetLabel(sel, id, label) ==
    [k \in DOMAIN sel |-> IF sel[k].id = id THEN [sel[k] EXCEPT !.metric_label = label]
                          ELSE sel[k]]

\* lines 78-86
FormatReserve ==
    /\ fmpc = "reserve"
    /\ placeholders' = PutAll(<<>>, <<
           <<Token("slide_subtitle", 0, 0), DEFAULT_SUBTITLE>>,
           <<Token("4_cases_title", 0, 0), DEFAULT_4_CASES_TITLE>> >>)
    /\ used_images' = OwnImages(selected)
    /\ used_metrics' = OwnMetrics(selected)
    /\ fi' = 1
    /\ fmpc' = "fill"
    /\ UNCHANGED <<all_cases, used_logos, available_logos, env_api_key, selected, error,
                   lookups, notFormat>>

\* lines 99-183, one record of the second pass
FormatFill ==
    /\ fmpc = "fill"
    /\ fi <= Len(selected)
    /\ \E imageAnswer, metricAnswer \in AnswersWith(env_api_key, Len(all_cases) + 1) :
         LET cs == selected[fi]
             similar_image == FindSimilarImage(all_cases, used_images, imageAnswer)
             image_value ==
                 IF Truthy(cs.image_file) THEN ImagePath(cs.image_file)
                 ELSE IF similar_image.ok THEN ImagePath(similar_image.value)
                      ELSE DEFAULT_IMAGE_PLACEHOLDER
             similar_metric == FindSimilarMetric(all_cases, used_metrics, metricAnswer)
             borrowed == NeedsMetricLookup(cs) /\ similar_metric.ok
             relabel == borrowed /\ similar_metric.label # <<>> /\ ~Truthy(cs.metric_label)
             metric_label == IF relabel THEN similar_metric.label
                             ELSE Get(cs, "metric_label", <<>>)
         IN
         IF TabLabelRaises(cs)
           THEN /\ fmpc' = "raised"
                /\ error' = "IndexError"
                /\ UNCHANGED <<placeholders, used_images, used_metrics, selected, fi,
                               lookups>>
           ELSE
           /\ used_images' =
                 IF ~Truthy(cs.image_file) /\ similar_image.ok
                   THEN used_images \cup {similar_image.value}
                   ELSE used_images
           /\ used_metrics' =
                 IF borrowed THEN used_metrics \cup {similar_metric.value} ELSE used_metrics
           /\ selected' = IF relabel THEN SetLabel(selected, cs.id, similar_metric.label)
                          ELSE selected
           /\ placeholders' = PutAll(placeholders, <<
                 <<Token("case_study_name", fi, 0), Strip(cs.org)>>,
                 <<Token("case_study_title", fi, 0), TitleOf(cs)>>,
                 <<Token("case_study_description", fi, 0),
                   CleanDescription(Strip(Get(cs, "description", <<>>)))>>,
                 <<Token("case_study_image", fi, 0), image_value>>,
                 <<Token("case_study_metric", fi, 0), AddPlus(RawMetric(cs, similar_metric))>>,
                 <<Token("metric_label", fi, 0), NormalizedLabel(metric_label)>>,
                 <<Token("case_study_category", fi, 0),
                   Upper(Get(cs, "category", CategoryDefault))>>,
                 <<Token("tab_label", fi, 0), TabLabel(cs, fi)>> >>)
           /\ lookups' = Append(lookups,
                 [image |-> LookupOutcome(~Truthy(cs.image_file),
                                          ImageCandidates(all_cases, used_images),
                                          imageAnswer),
                  metric |-> LookupOutcome(NeedsMetricLookup(cs),
                                           MetricCandidates(all_cases, used_metrics),
                                           metricAnswer),
                  similar_image |-> IF ~Truthy(cs.image_file) /\ similar_image.ok
                                    THEN similar_image.value ELSE Absent,
                  similar_metric |-> IF borrowed THEN similar_metric.value ELSE Absent])
           /\ fi' = fi + 1
           /\ UNCHANGED <<fmpc, error>>
    /\ UNCHANGED <<all_cases, used_logos, available_logos, env_api_key, notFormat>>

\* the logo catalog is listed once, between the passes (lines 186-187)
LogoCatalogs == {<<>>, << <<"growth">>, <<"savings">> >>}

FormatListLogos ==
    /\ fmpc = "fill"
    /\ fi > Len(selected)
    /\ available_logos' \in LogoCatalogs
    /\ used_logos' = {}
    /\ fi' = 1
    /\ fmpc' = "logos"
    /\ UNCHANGED <<all_cases, placeholders, used_images, used_metrics, env_api_key,
                   selected, error, lookups, notFormat>>

\* s[:n]
Take(s, n) == SubSeq(s, 1, IF Len(s) < n THEN Len(s) ELSE n)

\* the first position >= from holding an element of chars, 0 if none
RECURSIVE FirstIndex(_, _, _)
FirstIndex(s, chars, from) ==
    IF from > Len(s) THEN 0
    ELSE IF s[from] \in chars THEN from ELSE FirstIndex(s, chars, from + 1)

\* the first position >= from holding no whitespace, 0 if none
RECURSIVE FirstNonSpace(_, _)
FirstNonSpace(s, from) ==
    IF from > Len(s) THEN 0
    ELSE IF s[from] \notin Whitespace THEN from ELSE FirstNonSpace(s, from + 1)

\* re.search(label + r'\s*(.+?)(?:stop|$)', description).group(1).strip(),
\* "" without a match: the text after the first label, up to the first
\* stop label that starts after the first captured character
Section(description, label, stops) ==
    LET p == FirstIndex(description, {label}, 1)
        q == IF p = 0 THEN 0 ELSE FirstNonSpace(description, p + 1)
        e == IF q = 0 THEN 0 ELSE FirstIndex(description, stops, q + 1)
    IN  IF q = 0 THEN <<>>
        ELSE Strip(SubSeq(description, q, IF e = 0 THEN Len(description) ELSE e - 1))

\* characters of a string whose section labels are single elements
CharLen(s) ==
    Len(s) + 9 * Cardinality({k \in DOMAIN s : s[k] = "Challenge:"})
           + 8 * Cardinality({k \in DOMAIN s : s[k] = "Solution:"})
           + 6 * Cardinality({k \in DOMAIN s : s[k] = "Impact:"})

\* re.split(r'[.;]\s+', text)
RECURSIVE SplitParts(_, _)
SplitParts(s, part) ==
    IF s = <<>> THEN <<part>>
    ELSE IF Head(s) \in {".", ";"} /\ Len(s) >= 2 /\ s[2] \in Whitespace
           THEN <<part>> \o SplitParts(LStrip(Tail(s)), <<>>)
           ELSE SplitParts(Tail(s), Append(part, Head(s)))

\* _split_into_bullets
SplitIntoBullets(text, max_bullets) ==
    IF text = <<>> THEN <<>>
    ELSE LET parts == SplitParts(text, <<>>)
             stripped == [k \in DOMAIN parts |-> Strip(parts[k])]
         IN  Take(SelectSeq(stripped, LAMBDA b : b # <<>> /\ CharLen(b) > 5), max_bullets)

\* _parse_csi_description
ParseCSIDescription(description) ==
    [challenge |-> SplitIntoBullets(Section(description, "Challenge:", {"Solution:"}), 3),
     solution  |-> SplitIntoBullets(Section(description, "Solution:", {"Impact:"}), 4),
     impact    |-> SplitIntoBullets(Section(description, "Impact:", {}), 3)]

\* lines 213-220
HasStructured(cs) ==
    cs.challenges # Absent /\ cs.solutions # Absent /\ cs.impacts # Absent

CSIPoints(cs) ==
    IF HasStructured(cs)
      THEN [challenge |-> Take(cs.challenges, 3),
            solution  |-> Take(cs.solutions, 4),
            impact    |-> Take(cs.impacts, 3)]
      ELSE ParseCSIDescription(Get(cs, "description", <<>>))

\* points[x-1] if x-1 < len(points) else ""
PointAt(points, x) == IF x - 1 < Len(points) THEN points[x] ELSE <<>>

\* lines 222-235: the numbered bullets of case i
NumberedBullets(i, points) ==
    [x \in 1..3 |-> <<Token("case_study_challenge", i, x), PointAt(points.challenge, x)>>]
    \o [x \in 1..4 |-> <<Token("case_study_solution", i, x), PointAt(points.solution, x)>>]
    \o [x \in 1..3 |-> <<Token("case_study_impact", i, x), PointAt(points.impact, x)>>]

\* lines 238-260: the unnumbered tokens of slide 3, from the first case
Slide3Entries(cs, points) ==
    << <<Token("case_study_name_slide3", 0, 0), Strip(cs.org)>>,
       <<Token("case_study_category_slide3", 0, 0), Upper(Get(cs, "category", CategoryDefault))>>,
       <<Token("metric_label_slide3", 0, 0), Get(cs, "metric_label", <<>>)>> >>
    \o [x \in 1..3 |-> <<Token("challenge", 0, x), PointAt(points.challenge, x)>>]
    \o << <<Token("solution_intro", 0, 0), <<"Our Solution:">> >> >>
    \o [x \in 1..4 |-> <<Token("solution", 0, x), PointAt(points.solution, x)>>]
    \o [x \in 1..3 |-> <<Token("impact", 0, x), PointAt(points.impact, x)>>]

\* lines 189-260, one record of the third pass; the first statement of
\* the body reads TEMPLATE_CONFIG["case_study_logo"]
FormatLogos ==
    /\ fmpc = "logos"
    /\ fi <= Len(selected)
    /\ IF ~ConfigHas("case_study_logo")
         THEN /\ fmpc' = "raised"
              /\ error' = "KeyError"
              /\ UNCHANGED <<placeholders, used_logos, fi>>
         ELSE \E answer \in LookupAnswers(Len(available_logos) + 1) :
              LET cs == selected[fi]
                  remaining == SelectSeq(available_logos, LAMBDA logo : logo \notin used_logos)
                  matched == IF available_logos # <<>> /\ env_api_key
                               THEN MatchLogo(remaining, answer)
                               ELSE NoMatch
                  points == CSIPoints(cs)
              IN  /\ placeholders' = PutAll(placeholders,
                        << <<Token("case_study_logo", fi, 0),
                             IF matched.ok THEN LogoPath(matched.value) ELSE <<>> >> >>
                        \o NumberedBullets(fi, points)
                        \o (IF fi = 1 THEN Slide3Entries(cs, points) ELSE <<>>))
                  /\ used_logos' = IF matched.ok THEN used_logos \cup {matched.value}
                                   ELSE used_logos
                  /\ fi' = fi + 1
                  /\ UNCHANGED <<fmpc, error>>
    /\ UNCHANGED <<all_cases, used_images, used_metrics, available_logos, env_api_key,
                   selected, lookups, notFormat>>

\* line 262
FormatReturn ==
    /\ fmpc = "logos"
    /\ fi > Len(selected)
    /\ fmpc' = "returned"
    /\ UNCHANGED <<all_cases, placeholders, used_images, used_metrics, used_logos,
                   available_logos, env_api_key, fi, selected, error, lookups,
                   notFormat>>

NextFormat == FormatReserve \/ FormatFill \/ FormatListLogos \/ FormatLogos \/ FormatReturn


\* ------------------------------------------------------------
\* inputs of format_selected_for_pptx
\* ------------------------------------------------------------
MaxSelected == 2
MaxMetricLen == 2

Org == <<"A", "c", "m", "e", " ", "h", "t">>
DealTitle == <<"D", "e", "a", "l">>
LongTitle == [k \in 1..(MAX_TITLE_LENGTH + 1) |-> "x"]
Text == <<"Challenge:", " ", "s", "l", "o", "w", " ", "s", "i", "t", "e">>

\* a record of data/case_studies_complete.json
CaseRecord(org, deal_title, description, image_file, metric, metric_label) ==
    [id |-> 0, org |-> org, deal_title |-> deal_title, title |-> Absent,
     description |-> description, image_file |-> image_file, metric |-> metric,
     metric_label |-> metric_label, category |-> Absent,
     challenges |-> Absent, solutions |-> Absent, impacts |-> Absent]

\* get_case_studies(): the records other companies lend from
DataFile ==
    << CaseRecord(<<"B">>, DealTitle, Text, <<"b.jpg">>, <<"7">>, <<"h">>),
       CaseRecord(<<"C">>, DealTitle, Text, <<"a.jpg">>, <<"9", "%">>, Absent),
       CaseRecord(<<"D">>, DealTitle, Text, <<>>, <<"-">>, Absent) >>

DataFiles == {<<>>, DataFile}

\* records that differ in what the passes read
RecordPool ==
    {CaseRecord(Org, DealTitle, Text, img, m, l) :
        img \in {<<>>, <<"a.jpg">>},
        m \in {<<>>, <<"-">>, <<"7">>, <<"7", "+">>},
        l \in {Absent, <<"h">>}}

\* every metric string of up to MaxMetricLen characters
MetricAlphabet == {"7", "K", ".", "%", "+", "-", "#", "{em-dash}"}
MetricStrings == UNION {[1..n -> MetricAlphabet] : n \in 0..MaxMetricLen}

\* records that differ in every field the second pass formats
SingleRecords ==
    {CaseRecord(o, t, d, <<"a.jpg">>, m, Absent) :
        o \in {Org, <<" ">>, <<>>}, t \in {DealTitle, LongTitle}, d \in {<<>>, Text},
        m \in MetricStrings}

\* the list holds objects: position k holds object k, or one object fills
\* every position
WithIds(s, same) == [k \in DOMAIN s |-> [s[k] EXCEPT !.id = IF same THEN 1 ELSE k]]

SelectedInputs ==
    LET lists == UNION {[1..n -> RecordPool] : n \in 0..MaxSelected} IN
    {WithIds(s, FALSE) : s \in lists}
    \cup {WithIds(s, TRUE) : s \in {t \in lists : Len(t) >= 2 /\ \A k \in DOMAIN t : t[k] = t[1]}}

\* a selection of one record, or none
SingleInputs == {<<>>} \cup {WithIds(<<r>>, FALSE) : r \in SingleRecords}

FormatStart(inputs) ==
    /\ fmpc = "reserve"
    /\ selected \in inputs
    /\ all_cases \in DataFiles
    /\ env_api_key \in BOOLEAN
    /\ placeholders = <<>>
    /\ used_images = {}
    /\ used_metrics = {}
    /\ used_logos = {}
    /\ available_logos = <<>>
    /\ fi = 0
    /\ lookups = <<>>
    /\ error = "none"
    /\ num_cases = 0
    /\ FilterIdle
    /\ SelectIdle
    /\ RenderIdle
    /\ RequestIdle
    /\ RunIdle
    /\ LaterIdle

InitFormat == FormatStart(SelectedInputs)

InitFormatSingle == FormatStart(SingleInputs)

\* a selection of one record that may lack an image, a metric, a label
LookupInputs == {<<>>} \cup {WithIds(<<r>>, FALSE) : r \in RecordPool}

InitFormatLookup == FormatStart(LookupInputs)

\* one record, its lookups answered in every way
SpecFormatLookup == InitFormatLookup /\ [][NextFormat]_vars

\* lists of records that may share images and metrics
SpecFormat == InitFormat /\ [][NextFormat]_vars

\* no record, or two: each may lack an image or a real metric, each may carry
\* what the other would borrow
PairInputs ==
    LET pool == {CaseRecord(Org, DealTitle, Text, img, m, Absent) :
                    img \in {<<>>, <<"a.jpg">>, <<"b.jpg">>},
                    m \in {<<"-">>, <<"7">>, <<"9", "%">>}}
    IN  {<<>>} \cup {WithIds(<<first, second>>, FALSE) : first \in pool, second \in pool}

InitFormatPair == FormatStart(PairInputs)

SpecFormatPair == InitFormatPair /\ [][NextFormat]_vars

\* C26: a value that a lookup returned for one selected record is never
\* the image, or the real metric, that a selected record of the run
\* carries itself, whether that record is formatted before or after.
C26_BorrowedNeverNative ==
    \A i \in DOMAIN lookups : \A j \in DOMAIN selected :
        /\ (lookups[i].similar_image # Absent /\ Truthy(selected[j].image_file)) =>
              lookups[i].similar_image # selected[j].image_file
        /\ (lookups[i].similar_metric # Absent /\ Truthy(selected[j].metric)
               /\ selected[j].metric \notin Dashes) =>
              lookups[i].similar_metric # selected[j].metric

\* the first record borrowed an image and a metric while the second, not
\* yet formatted at that time, carries an image and a metric of the data
\* file itself
C26_Witness ==
    /\ Len(lookups) = 2
    /\ lookups[1].similar_image = <<"b.jpg">>
    /\ lookups[1].similar_metric = <<"9", "%">>
    /\ selected[2].image_file = <<"a.jpg">>
    /\ selected[2].metric = <<"7">>

\* one record, every metric string
SpecFormatSingle == InitFormatSingle /\ [][NextFormat]_vars


\* ------------------------------------------------------------
\* claims on format_selected_for_pptx
\* ------------------------------------------------------------

\* slots the second pass has filled
Filled == IF fmpc = "fill" THEN 1..(fi - 1)
          ELSE IF fmpc \in {"logos", "returned"} THEN DOMAIN selected
          ELSE {}

ImageOf(i) == placeholders[Token("case_study_image", i, 0)]
MetricOf(i) == placeholders[Token("case_study_metric", i, 0)]

\* C4: in one run, no image value and no metric value (the defaults for
\* "nothing found" set aside) is assigned to two different selected
\* records, whatever their own fields and whatever the lookups answer.
\* (Logo values are never assigned: the third pass stops at its first
\* statement.)
C4_NoSharedResource ==
    \A i, j \in Filled :
        (i # j /\ selected[i].id # selected[j].id) =>
            /\ ImageOf(i) = ImageOf(j) => ImageOf(i) = DEFAULT_IMAGE_PLACEHOLDER
            /\ MetricOf(i) = MetricOf(j) => MetricOf(i) = DEFAULT_METRIC_PLACEHOLDER


\* the characters the metric normalization treats as a suffix
SpecialSuffixes == {"%", "+", "-", "#"}

EndsSpecial(m) == m # <<>> /\ m[Len(m)] \in SpecialSuffixes

\* C5 as stated: a pure-numeric metric is emitted with exactly one "+"
\* appended, and a metric whose last character is one of % + - # is
\* emitted unchanged.
C5_MetricNormalization ==
    \A i \in Filled :
        LET m == selected[i].metric IN
        /\ IsDigitStr(m) => MetricOf(i) = m \o <<"+">>
        /\ EndsSpecial(m) => MetricOf(i) = m

\* C5, amended: a pure-numeric metric is emitted with exactly one "+"
\* appended, and a metric whose last character is one of % + - # and
\* which is not the lone dash "-" is emitted unchanged (the lone dash
\* counts as a missing metric and may be replaced by a borrowed one).
C5_MetricNormalizationExceptDash ==
    \A i \in Filled :
        LET m == selected[i].metric IN
        /\ IsDigitStr(m) => MetricOf(i) = m \o <<"+">>
        /\ (EndsSpecial(m) /\ m # <<"-">>) => MetricOf(i) = m

\* a run that emitted the metric "7" as "7+"
C5_Witness ==
    \E i \in Filled :
        /\ selected[i].metric = <<"7">>
        /\ MetricOf(i) = <<"7", "+">>

\* C7: every request gets its table, and no token of the table maps to
\* the empty string (missing data is filled with a default).
C7_NoEmptyValue ==
    /\ fmpc # "raised"
    /\ \A t \in DOMAIN placeholders : placeholders[t] # <<>>

\* the ways a lookup that was made can fail
FailedLookups == {"raised", "out_of_range"}

\* the per-slot tokens of the second pass
FillTokens(i) ==
    {Token(k, i, 0) : k \in {"case_study_name", "case_study_title",
                             "case_study_description", "case_study_image",
                             "case_study_metric", "metric_label",
                             "case_study_category", "tab_label"}}

C16_RecordsImmutable == [][selected' = selected]_vars

\* the token the mutator looks the logo of slot i up by
\* (logo_placeholders_ordered)
LogoToken(i) == <<"logo{n}", i, 0>>

FormatOver == fmpc \in {"returned", "raised"}

\* C19: for a non-empty selection the formatter returns, and its table
\* has a value for every per-slot token of every slot, the logo token
\* included.
C19_EverySlotTokenSet ==
    (selected # <<>> /\ FormatOver) =>
        /\ fmpc = "returned"
        /\ \A i \in DOMAIN selected :
              FillTokens(i) \cup {LogoToken(i)} \subseteq DOMAIN placeholders

\* the value the table holds for a token, Absent when it has none
TableValue(t) == IF t \in DOMAIN placeholders THEN placeholders[t] ELSE Absent

\* C20: for every selected record the table holds at most 3, 4 and 3
\* challenge, solution and impact bullets: the first items of the
\* structured fields when all three are present, else the bullets parsed
\* from the description, slot x holding the x-th bullet.
C20_BulletsInTable ==
    (selected # <<>> /\ FormatOver) =>
        \A i \in DOMAIN selected :
            LET points == CSIPoints(selected[i]) IN
            /\ Len(points.challenge) <= 3
            /\ Len(points.solution) <= 4
            /\ Len(points.impact) <= 3
            /\ \A x \in 1..3 :
                  TableValue(Token("case_study_challenge", i, x))
                      = PointAt(points.challenge, x)
            /\ \A x \in 1..4 :
                  TableValue(Token("case_study_solution", i, x))
                      = PointAt(points.solution, x)
            /\ \A x \in 1..3 :
                  TableValue(Token("case_study_impact", i, x))
                      = PointAt(points.impact, x)

\* ============================================================
\* pptx_generator._wrap_text_to_lines
\* ============================================================

MaxTokens == 5

EMU_PER_POINT == 12700
DefaultFontPt == 11
MinCharLimit == 6
\* TITLE_CHAR_WIDTH_FACTOR = 0.56, in hundredths
TITLE_CHAR_WIDTH_FACTOR_PCT == 56
\* the max_lines argument of the overview-slide title wrap
TitleMaxLines == 2

Ellipsis == "{ellipsis}"

\* max(6, int(width_pt / (font_size_pt * char_width_factor)))
CharLimit(w_emu, font_pt) ==
    LET font == IF font_pt = 0 THEN DefaultFontPt ELSE font_pt
        q == (w_emu * 100) \div (EMU_PER_POINT * font * TITLE_CHAR_WIDTH_FACTOR_PCT)
    IN  IF q > MinCharLimit THEN q ELSE MinCharLimit

\* str.split('\n')
RECURSIVE SplitLines(_, _)
SplitLines(s, part) ==
    IF s = <<>> THEN <<part>>
    ELSE IF Head(s) = "\n" THEN <<part>> \o SplitLines(Tail(s), <<>>)
         ELSE SplitLines(Tail(s), Append(part, Head(s)))

\* TextWrapper._split on text without hyphens: the maximal runs of
\* whitespace and of other characters, in order
RECURSIVE Chunks(_, _)
Chunks(s, chunk) ==
    IF s = <<>> THEN (IF chunk = <<>> THEN <<>> ELSE <<chunk>>)
    ELSE IF chunk = <<>> \/ ((Head(s) \in Whitespace) = (chunk[1] \in Whitespace))
           THEN Chunks(Tail(s), Append(chunk, Head(s)))
           ELSE <<chunk>> \o Chunks(s, <<>>)

\* chunk.strip() == ''
IsBlank(chunk) == \A k \in DOMAIN chunk : chunk[k] \in Whitespace

\* how many leading chunks fit on a line that already holds cur_len
RECURSIVE FitCount(_, _, _)
FitCount(chunks, width, cur_len) ==
    IF chunks # <<>> /\ cur_len + Len(Head(chunks)) <= width
      THEN 1 + FitCount(Tail(chunks), width, cur_len + Len(Head(chunks)))
      ELSE 0

RECURSIVE Join(_)
Join(chunks) == IF chunks = <<>> THEN <<>> ELSE Head(chunks) \o Join(Tail(chunks))

\* TextWrapper._wrap_chunks with break_long_words=False, drop_whitespace=True
RECURSIVE WrapChunks(_, _, _)
WrapChunks(chunks, width, lines) ==
    IF chunks = <<>> THEN lines
    ELSE LET c1 == IF IsBlank(Head(chunks)) /\ lines # <<>> THEN Tail(chunks) ELSE chunks
             n == FitCount(c1, width, 0)
             fit == SubSeq(c1, 1, n)
             rest == SubSeq(c1, n + 1, Len(c1))
             long == rest # <<>> /\ Len(Head(rest)) > width /\ fit = <<>>
             cur_line == IF long THEN <<Head(rest)>> ELSE fit
             left == IF long THEN Tail(rest) ELSE rest
             kept == IF cur_line # <<>> /\ IsBlank(cur_line[Len(cur_line)])
                       THEN SubSeq(cur_line, 1, Len(cur_line) - 1)
                       ELSE cur_line
         IN  WrapChunks(left, width, IF kept # <<>> THEN Append(lines, Join(kept)) ELSE lines)

\* textwrap.wrap(segment, width=char_limit, break_long_words=False) on a
\* segment without tabs; "\n" never reaches it
TextWrap(segment, width) == WrapChunks(Chunks(segment, <<>>), width, <<>>)

\* a faulty truncation, the cut without the ellipsis: C6 must not hold
\* with it
Truncate_noEllipsis(lines, max_lines) == SubSeq(lines, 1, max_lines)

\* lines 1235-1237
Truncate(lines, max_lines) ==
    LET cut == SubSeq(lines, 1, max_lines) IN
    [cut EXCEPT ![Len(cut)] = Append(RStripChars(cut[Len(cut)], {" ", ".", ",", ";"}), Ellipsis)]

\* title texts
Vocabulary == {<<"a">>, <<"a", "b", "c", "d", "e", "f", "g">>, <<" ">>, <<".">>, <<"\n">>}
Texts == {Join(t) : t \in UNION {[1..n -> Vocabulary] : n \in 0..MaxTokens}}
Widths == {0, 1371600}
FontSizes == {0, 11, 18}

InitWrap ==
    /\ wpc = "start"
    /\ title_text \in Texts
    /\ width_emu \in Widths
    /\ font_size_pt \in FontSizes
    /\ char_limit = 0
    /\ segments = <<>>
    /\ wrapped_lines = <<>>
    /\ truncated = FALSE
    /\ PipelineIdle
    /\ ShapesIdle
    /\ RequestIdle
    /\ RunIdle
    /\ LaterIdle

\* lines 1215-1216
WrapEmpty ==
    /\ wpc = "start"
    /\ title_text = <<>>
    /\ wrapped_lines' = << <<>> >>
    /\ truncated' = FALSE
    /\ wpc' = "done"
    /\ UNCHANGED <<title_text, width_emu, font_size_pt, char_limit, segments, notWrap>>

\* lines 1218-1223
WrapStart ==
    /\ wpc = "start"
    /\ title_text # <<>>
    /\ char_limit' = CharLimit(width_emu, font_size_pt)
    /\ segments' = SplitLines(title_text, <<>>)
    /\ wrapped_lines' = <<>>
    /\ wpc' = "segments"
    /\ UNCHANGED <<title_text, width_emu, font_size_pt, truncated, notWrap>>

\* lines 1223-1229, one segment
WrapSegment ==
    /\ wpc = "segments"
    /\ segments # <<>>
    /\ LET segment == Strip(Head(segments))
           lines == TextWrap(segment, char_limit)
       IN  wrapped_lines' =
               IF segment = <<>> THEN Append(wrapped_lines, <<>>)
               ELSE wrapped_lines \o (IF lines # <<>> THEN lines ELSE <<segment>>)
    /\ segments' = Tail(segments)
    /\ UNCHANGED <<wpc, title_text, width_emu, font_size_pt, char_limit, truncated, notWrap>>

\* lines 1231-1239
WrapFinish ==
    /\ wpc = "segments"
    /\ segments = <<>>
    /\ LET lines == IF wrapped_lines = <<>> THEN << <<>> >> ELSE wrapped_lines IN
       /\ truncated' = (Len(lines) > TitleMaxLines)
       /\ wrapped_lines' = IF truncated' THEN Truncate(lines, TitleMaxLines) ELSE lines
    /\ wpc' = "done"
    /\ UNCHANGED <<title_text, width_emu, font_size_pt, char_limit, segments, notWrap>>

NextWrap == WrapEmpty \/ WrapStart \/ WrapSegment \/ WrapFinish

SpecWrap == InitWrap /\ [][NextWrap]_vars

\* C6: the overview-slide title wrap (max_lines = 2) returns at most 2
\* lines, and whenever it reports truncation the last returned line ends
\* with an ellipsis.
C6_TitleWrapBounded ==
    wpc = "done" =>
        /\ Len(wrapped_lines) <= TitleMaxLines
        /\ truncated => EndsWith(wrapped_lines[Len(wrapped_lines)], Ellipsis)

\* a title of three long words, narrower than two of them: cut to two
\* lines, the second ending with the ellipsis
C6_Witness ==
    /\ wpc = "done"
    /\ truncated
    /\ ~("\n" \in Range(title_text))
    /\ Len(wrapped_lines) = TitleMaxLines
    /\ EndsWith(wrapped_lines[TitleMaxLines], Ellipsis)

\* ============================================================
\* api.app.generate_presentation (POST /api/generate)
\* ============================================================

\* safe[:50]
SafeNameMax == 50

PresentationTypes == {0, 1, 2, 4}

Acme == <<"A", "c", "m", "e">>
CompanyNames == {Acme, <<"A", "c", "m", "e", " ", "&", " ", "C", "o", ".">>, <<"A", "-", "B">>}

\* \w of the names above
WordChars == {"A", "B", "C", "c", "m", "e", "o", "_"}

\* re.sub(r'[-\s]+', '_', safe)
RECURSIVE CollapseSeparators(_)
CollapseSeparators(s) ==
    IF s = <<>> THEN <<>>
    ELSE IF Head(s) \in Whitespace \cup {"-"}
           THEN IF Len(s) >= 2 /\ s[2] \in Whitespace \cup {"-"}
                  THEN CollapseSeparators(Tail(s))
                  ELSE <<"_">> \o CollapseSeparators(Tail(s))
           ELSE <<Head(s)>> \o CollapseSeparators(Tail(s))

\* _sanitize_filename
SanitizeFilename(name) ==
    LET safe == SelectSeq(name, LAMBDA c : c \in WordChars \cup Whitespace \cup {"-"})
    IN  Take(CollapseSeparators(safe), SafeNameMax)

\* f"{safe_name}_{request.presentation_type}-cases_{timestamp}.pptx"
Filename(req) ==
    SanitizeFilename(req.company_name)
    \o <<"_", ToString(req.presentation_type), "-cases_", "{timestamp}", ".pptx">>

Raised(exception) == [kind |-> exception, slides |-> 0]

\* slides left by _filter_slides(prs, num_cases)
SlidesLeft(slides, n) ==
    IF n = 0 THEN slides
    ELSE Cardinality({i \in 0..(slides - 1) : i \in SlidesToKeep(n)})

\* generate_presentation_to_memory: the exception that ends it, or the
\* document it returns (the AI answers with in-range indices)
ToMemoryOutcome(req, e) ==
    IF ~e.data_exists \/ ~e.template_exists THEN Raised("FileNotFoundError")
    ELSE IF ~CallBinds("to_memory") THEN Raised("TypeError")
    ELSE IF e.ai_count # ExpectedSelections THEN Raised("ValueError")
    ELSE IF ~ConfigHas("case_study_logo") THEN Raised("KeyError")
    ELSE [kind |-> "ok", slides |-> SlidesLeft(e.slides, req.presentation_type)]

HTTP_200_OK == 200
HTTP_400_BAD_REQUEST == 400
HTTP_401_UNAUTHORIZED == 401
HTTP_500_INTERNAL_SERVER_ERROR == 500

Environments ==
    [api_key : BOOLEAN, data_exists : BOOLEAN, template_exists : BOOLEAN,
     qualifying : {3, 4, 5}, slides : {3}, ai_count : {3, 4}]

InitRequest ==
    /\ rpc = "received"
    /\ request \in [company_name : CompanyNames, presentation_type : PresentationTypes]
    /\ env \in Environments
    /\ outcome = NoOutcome
    /\ response = NoResponse
    /\ PipelineIdle
    /\ RenderIdle
    /\ RunIdle
    /\ LaterIdle

\* lines 53-58
RequestNoKey ==
    /\ rpc = "received"
    /\ ~env.api_key
    /\ response' = [status |-> HTTP_401_UNAUTHORIZED, filename |-> <<>>, slides |-> 0]
    /\ rpc' = "responded"
    /\ UNCHANGED <<request, env, outcome, notRequest>>

\* lines 64-72
RequestGenerate ==
    /\ rpc = "received"
    /\ env.api_key
    /\ outcome' = ToMemoryOutcome(request, env)
    /\ rpc' = "respond"
    /\ UNCHANGED <<request, env, response, notRequest>>

\* lines 74-98
RequestRespond ==
    /\ rpc = "respond"
    /\ response' =
         CASE outcome.kind = "ok" ->
                [status |-> HTTP_200_OK, filename |-> Filename(request),
                 slides |-> outcome.slides]
           [] outcome.kind = "FileNotFoundError" ->
                [status |-> HTTP_500_INTERNAL_SERVER_ERROR, filename |-> <<>>, slides |-> 0]
           [] outcome.kind = "ValueError" ->
                [status |-> HTTP_400_BAD_REQUEST, filename |-> <<>>, slides |-> 0]
           [] OTHER ->
                [status |-> HTTP_500_INTERNAL_SERVER_ERROR, filename |-> <<>>, slides |-> 0]
    /\ rpc' = "responded"
    /\ UNCHANGED <<request, env, outcome, notRequest>>

NextRequest == RequestNoKey \/ RequestGenerate \/ RequestRespond

SpecRequest == InitRequest /\ [][NextRequest]_vars

\* the request of the end-to-end scenario: size 4, "Acme", credential,
\* files, at least 4 qualifying records and a validating AI answer
EndToEndScenario ==
    /\ request.company_name = Acme
    /\ request.presentation_type = 4
    /\ env.api_key
    /\ env.data_exists
    /\ env.template_exists
    /\ env.qualifying >= 4
    /\ env.ai_count = ExpectedSelections

\* C8: in the end-to-end scenario the request completes successfully and
\* yields a single-slide document whose filename begins with
\* Acme_4-cases_.
C8_EndToEndFourCases ==
    (rpc = "responded" /\ EndToEndScenario) =>
        /\ response.status = HTTP_200_OK
        /\ response.slides = 1
        /\ Len(response.filename) >= 7
        /\ SubSeq(response.filename, 1, 7) = <<"A", "c", "m", "e", "_", "4", "-cases_">>

\* C18: a request of size 0, everything else in order, completes and
\* its document holds every slide of the template.
C18_SizeZeroKeepsAll ==
    (/\ rpc = "responded"
     /\ request.presentation_type = 0
     /\ env.api_key /\ env.data_exists /\ env.template_exists
     /\ env.ai_count = ExpectedSelections) =>
        /\ response.status = HTTP_200_OK
        /\ response.slides = env.slides

\* ============================================================
\* pptx_generator._replace_in_shapes, one slide
\* ============================================================
\* A shape-level operation either completes or throws; what is thrown
\* inside a try block is caught there, anything else leaves the call.

MaxShapes == 2
MaxImages == 2
MaxLogos == 2

\* the calls of lines 1111-1118, in order; the third on slide 0 only
LayoutCalls(slide) ==
    IF slide = 0
      THEN <<"_resize_grey_boxes", "_align_metrics_with_labels",
             "_align_title_line_description">>
      ELSE <<"_resize_grey_boxes", "_align_metrics_with_labels">>

InitShapes ==
    /\ shpc = "text"
    /\ slide_idx \in {0, 1}
    /\ n_text \in 0..MaxShapes
    /\ n_images \in 0..MaxImages
    /\ n_logos \in 0..MaxLogos
    /\ sk = 1
    /\ done_ops = {}
    /\ skipped_ops = {}
    /\ temp_files = <<>>
    /\ created = {}
    /\ unlinked = {}
    /\ PipelineIdle
    /\ WrapIdle
    /\ RequestIdle
    /\ RunIdle
    /\ LaterIdle

shapeInputs == <<slide_idx, n_text, n_images, n_logos>>

\* lines 1006-1011: _process_text_shape on one shape, outside any try
ShapeText ==
    /\ shpc = "text"
    /\ sk <= n_text
    /\ \E throws \in BOOLEAN :
         IF throws
           THEN /\ shpc' = "aborted"
                /\ UNCHANGED <<sk, done_ops>>
           ELSE /\ done_ops' = done_ops \cup {<<"text", sk>>}
                /\ sk' = sk + 1
                /\ UNCHANGED shpc
    /\ UNCHANGED <<shapeInputs, skipped_ops, temp_files, created, unlinked, notShapes>>

TextDone ==
    /\ shpc = "text"
    /\ sk > n_text
    /\ shpc' = "remove"
    /\ sk' = 1
    /\ UNCHANGED <<shapeInputs, done_ops, skipped_ops, temp_files, created, unlinked,
                   notShapes>>

\* lines 1014-1019: remove one replaced picture, inside try
ShapeRemove ==
    /\ shpc = "remove"
    /\ sk <= n_images
    /\ \E throws \in BOOLEAN :
         IF throws
           THEN /\ skipped_ops' = skipped_ops \cup {<<"remove", sk>>}
                /\ UNCHANGED done_ops
           ELSE /\ done_ops' = done_ops \cup {<<"remove", sk>>}
                /\ UNCHANGED skipped_ops
    /\ sk' = sk + 1
    /\ UNCHANGED <<shpc, shapeInputs, temp_files, created, unlinked, notShapes>>

RemoveDone ==
    /\ shpc = "remove"
    /\ sk > n_images
    /\ shpc' = "insert"
    /\ sk' = 1
    /\ UNCHANGED <<shapeInputs, done_ops, skipped_ops, temp_files, created, unlinked,
                   notShapes>>

\* lines 1025-1046: insert one image, inside try.  On slide 0
\* _crop_image_to_aspect_ratio runs first: it throws before mkstemp
\* ("open"), after it ("save"), or returns the path, which is appended
\* to temp_files before add_picture runs
ShapeInsert ==
    /\ shpc = "insert"
    /\ sk <= n_images
    /\ \E crop \in {"open", "save", "ok"}, add_throws \in BOOLEAN :
         LET file == <<"crop", sk>>
             cropped == slide_idx = 0
             crop_ok == ~cropped \/ crop = "ok"
         IN  /\ created' = IF cropped /\ crop # "open" THEN created \cup {file} ELSE created
             /\ temp_files' = IF cropped /\ crop = "ok" THEN Append(temp_files, file)
                              ELSE temp_files
             /\ IF crop_ok /\ ~add_throws
                  THEN /\ done_ops' = done_ops \cup {<<"insert", sk>>}
                       /\ UNCHANGED skipped_ops
                  ELSE /\ skipped_ops' = skipped_ops \cup {<<"insert", sk>>}
                       /\ UNCHANGED done_ops
    /\ sk' = sk + 1
    /\ UNCHANGED <<shpc, shapeInputs, unlinked, notShapes>>

InsertDone ==
    /\ shpc = "insert"
    /\ sk > n_images
    /\ shpc' = "cleanup"
    /\ sk' = 1
    /\ UNCHANGED <<shapeInputs, done_ops, skipped_ops, temp_files, created, unlinked,
                   notShapes>>

\* lines 1049-1053: os.unlink on one entry of temp_files; its failure is
\* swallowed
ShapeCleanup ==
    /\ shpc = "cleanup"
    /\ sk <= Len(temp_files)
    /\ unlinked' = unlinked \cup {temp_files[sk]}
    /\ sk' = sk + 1
    /\ UNCHANGED <<shpc, shapeInputs, done_ops, skipped_ops, temp_files, created, notShapes>>

CleanupDone ==
    /\ shpc = "cleanup"
    /\ sk > Len(temp_files)
    /\ shpc' = "logos"
    /\ sk' = 1
    /\ UNCHANGED <<shapeInputs, done_ops, skipped_ops, temp_files, created, unlinked,
                   notShapes>>

\* lines 1064-1108: replace one logo.  _convert_svg_to_png fails before
\* mkstemp ("parse", returns None), after it ("draw", returns None), or
\* returns the PNG path, which is appended to temp_files
ShapeLogo ==
    /\ shpc = "logos"
    /\ sk <= n_logos
    /\ \E convert \in {"parse", "draw", "ok"}, add_throws \in BOOLEAN :
         LET file == <<"png", sk>> IN
         /\ created' = IF convert # "parse" THEN created \cup {file} ELSE created
         /\ temp_files' = IF convert = "ok" THEN Append(temp_files, file) ELSE temp_files
         /\ IF convert = "ok" /\ ~add_throws
              THEN /\ done_ops' = done_ops \cup {<<"logo", sk>>}
                   /\ UNCHANGED skipped_ops
              ELSE /\ skipped_ops' = skipped_ops \cup {<<"logo", sk>>}
                   /\ UNCHANGED done_ops
    /\ sk' = sk + 1
    /\ UNCHANGED <<shpc, shapeInputs, unlinked, notShapes>>

LogosDone ==
    /\ shpc = "logos"
    /\ sk > n_logos
    /\ shpc' = "layout"
    /\ sk' = 1
    /\ UNCHANGED <<shapeInputs, done_ops, skipped_ops, temp_files, created, unlinked,
                   notShapes>>

\* lines 1111-1118: one layout call, outside any try
ShapeLayout ==
    /\ shpc = "layout"
    /\ sk <= Len(LayoutCalls(slide_idx))
    /\ \E throws \in BOOLEAN :
         IF throws
           THEN /\ shpc' = "aborted"
                /\ UNCHANGED <<sk, done_ops>>
           ELSE /\ done_ops' = done_ops \cup {<<LayoutCalls(slide_idx)[sk], 0>>}
                /\ sk' = sk + 1
                /\ UNCHANGED shpc
    /\ UNCHANGED <<shapeInputs, skipped_ops, temp_files, created, unlinked, notShapes>>

ShapesReturn ==
    /\ shpc = "layout"
    /\ sk > Len(LayoutCalls(slide_idx))
    /\ shpc' = "returned"
    /\ UNCHANGED <<sk, shapeInputs, done_ops, skipped_ops, temp_files, created, unlinked,
                   notShapes>>

NextShapes ==
    \/ ShapeText \/ TextDone
    \/ ShapeRemove \/ RemoveDone
    \/ ShapeInsert \/ InsertDone
    \/ ShapeCleanup \/ CleanupDone
    \/ ShapeLogo \/ LogosDone
    \/ ShapeLayout \/ ShapesReturn

SpecShapes == InitShapes /\ [][NextShapes]_vars

\* C9: a shape-level operation that throws is caught and skipped; the
\* slide's mutation never aborts.
C9_ShapeFailureSkipped == shpc # "aborted"

\* C10: when the call returns, every temporary file it created has had a
\* deletion attempted on it.
C10_TempFilesDeleted == shpc = "returned" => created \subseteq unlinked

\* C21: when a slide's mutation returns, the resize of the white
\* category boxes has run on the slide.
C21_CategoryBoxesResized ==
    shpc = "returned" => <<"_resize_category_boxes", 0>> \in done_ops

\* ============================================================
\* one run of an entry point, stage by stage
\* (api/app.py generate_presentation, cli.py main, core.py)
\* ============================================================

\* the four ways into the pipeline
Entries == {"api", "to_memory", "workflow", "cli"}

\* the call site of select_case_studies an entry goes through
Caller(e) == IF e = "api" THEN "to_memory" ELSE e

\* core.py 68-94: validate, load, select, format, context, open the
\* template, mutate every slide, filter, save to a buffer
ToMemoryPlan ==
    <<"validate_paths", "load", "select", "format", "context",
      "open_template", "mutate", "filter", "save_bytes">>

\* a faulty plan that writes the file before the slides are mutated:
\* C11 must not hold with it
StagePlan_savesEarly(e) ==
    CASE e = "api" -> <<"check_key">> \o ToMemoryPlan
      [] e = "to_memory" -> ToMemoryPlan
      [] e = "workflow" ->
            <<"validate_paths", "load", "select", "format", "context",
              "open_template", "save_file", "mutate">>
      [] e = "cli" ->
            <<"check_key", "check_files", "load", "select", "format",
              "context", "open_template", "save_file", "mutate">>

\* the stages of each entry point in the order its code runs them:
\* app.py 53-72, core.py 68-94, core.py 30-49 with pptx_generator.py
\* 73-91, cli.py 59-115 with pptx_generator.py 73-91
StagePlan(e) ==
    CASE e = "api" -> <<"check_key">> \o ToMemoryPlan
      [] e = "to_memory" -> ToMemoryPlan
      [] e = "workflow" ->
            <<"validate_paths", "load", "select", "format", "context",
              "open_template", "mutate", "save_file">>
      [] e = "cli" ->
            <<"check_key", "check_files", "load", "select", "format",
              "context", "open_template", "mutate", "save_file">>

\* a faulty validation that looks at the data file only: C14 must not
\* hold with it
StageError_dataOnly(e, stage, c) ==
    CASE stage = "check_key" ->
            IF c.api_key THEN "none" ELSE "MissingCredential"
      [] stage \in {"validate_paths", "check_files"} ->
            IF c.data_exists THEN "none" ELSE "FileNotFound"
      [] stage = "select" ->
            IF ~CallBinds(Caller(e)) THEN "TypeError"
            ELSE IF c.ai_count # ExpectedSelections THEN "ValueError"
            ELSE "none"
      [] stage = "format" ->
            IF c.picked /\ ~ConfigHas("case_study_logo") THEN "KeyError"
            ELSE "none"
      [] stage = "mutate" ->
            IF c.shape_throws THEN "Exception" ELSE "none"
      [] OTHER -> "none"

\* the error a stage ends the run with, "none" when it completes:
\* `if not api_key` (app.py 54, cli.py 60), os.path.exists of both files
\* (core.py 99-102, cli.py 72-78), the binding of the select call and
\* the `!= 4` check (ai_selector.py 10-15, 44), the logo key read for
\* each selected record (ai_selector.py 190), an exception leaving
\* _replace_in_shapes
StageError(e, stage, c) ==
    CASE stage = "check_key" ->
            IF c.api_key THEN "none" ELSE "MissingCredential"
      [] stage \in {"validate_paths", "check_files"} ->
            IF c.data_exists /\ c.template_exists THEN "none"
            ELSE "FileNotFound"
      [] stage = "select" ->
            IF ~CallBinds(Caller(e)) THEN "TypeError"
            ELSE IF c.ai_count # ExpectedSelections THEN "ValueError"
            ELSE "none"
      [] stage = "format" ->
            IF c.picked /\ ~ConfigHas("case_study_logo") THEN "KeyError"
            ELSE "none"
      [] stage = "mutate" ->
            IF c.shape_throws THEN "Exception" ELSE "none"
      [] OTHER -> "none"

\* the credential, the files, the length of the AI's answer, whether any
\* answered index is in range, whether a shape operation throws
Confs ==
    [api_key : BOOLEAN, data_exists : BOOLEAN, template_exists : BOOLEAN,
     ai_count : {3, 4}, picked : BOOLEAN, shape_throws : BOOLEAN]

InitRun ==
    /\ runpc = "running"
    /\ entry \in Entries
    /\ conf \in Confs
    /\ stage_no = 1
    /\ trace = <<>>
    /\ result = NoResult
    /\ PipelineIdle
    /\ RenderIdle
    /\ RequestIdle
    /\ LaterIdle

NextStage == StagePlan(entry)[stage_no]

\* the run saved into a BytesIO buffer (core.py 91-93)
SavedBuffer == \E k \in 1..Len(trace) : trace[k] = "save_bytes"

\* the next stage completes; prs.save(output_path) writes the file
RunStage ==
    /\ runpc = "running"
    /\ stage_no <= Len(StagePlan(entry))
    /\ StageError(entry, NextStage, conf) = "none"
    /\ trace' = Append(trace, NextStage)
    /\ stage_no' = stage_no + 1
    /\ result' = IF NextStage = "save_file"
                 THEN [result EXCEPT !.document = "file"]
                 ELSE result
    /\ UNCHANGED <<runpc, entry, conf, notRun>>

\* the next stage raises (or exits): the run ends there
RunFail ==
    /\ runpc = "running"
    /\ stage_no <= Len(StagePlan(entry))
    /\ StageError(entry, NextStage, conf) # "none"
    /\ runpc' = "failed"
    /\ result' = [result EXCEPT !.error = StageError(entry, NextStage, conf)]
    /\ UNCHANGED <<entry, conf, stage_no, trace, notRun>>

\* the last stage is over: `return output` hands the buffer to the
\* caller, `return output_path` the path of the file already written
RunFinish ==
    /\ runpc = "running"
    /\ stage_no > Len(StagePlan(entry))
    /\ runpc' = "done"
    /\ result' = IF SavedBuffer THEN [result EXCEPT !.document = "bytes"]
                 ELSE result
    /\ UNCHANGED <<entry, conf, stage_no, trace, notRun>>

NextRun == RunStage \/ RunFail \/ RunFinish

SpecRun == InitRun /\ [][NextRun]_vars

\* C11: a run that ends in a fatal failure leaves no document: no
\* buffer is returned and no output file has been written.
C11_NoDocumentOnFailure == runpc = "failed" => result.document = "none"

\* a run that got as far as the mutator and failed there
C11_Witness ==
    /\ runpc = "failed"
    /\ result.error = "Exception"
    /\ \E k \in 1..Len(trace) : trace[k] = "open_template"
    /\ result.document = "none"

\* the position of a stage in the trace, 0 when it did not run
Position(stage) ==
    IF \E k \in 1..Len(trace) : trace[k] = stage
    THEN CHOOSE k \in 1..Len(trace) : trace[k] = stage
    ELSE 0

Ran(stage) == Position(stage) > 0

\* C12: a run that produces a document, as bytes or as a file, has run
\* load, select, format, mutate, filter and the save in that order.
C12_StageOrder ==
    (Ran("save_file") \/ Ran("save_bytes")) =>
        /\ Ran("load") /\ Ran("select") /\ Ran("format")
        /\ Ran("mutate") /\ Ran("filter")
        /\ Position("load") < Position("select")
        /\ Position("select") < Position("format")
        /\ Position("format") < Position("mutate")
        /\ Position("mutate") < Position("filter")
        /\ \A s \in {"save_file", "save_bytes"} :
                Ran(s) => Position("filter") < Position(s)

\* C13: with the credential missing the run fails before any work: the
\* data file is not loaded, the AI is not called, the template is not
\* opened.
C13_NoWorkWithoutCredential ==
    ~conf.api_key =>
        /\ ~Ran("load") /\ ~Ran("select") /\ ~Ran("open_template")
        /\ runpc # "done"
        /\ runpc = "failed" => result.error = "MissingCredential"

\* C14: with the data file or the template missing, a generation call
\* fails with the missing-file error before the records are loaded and
\* before the AI is called.
C14_MissingFileFailsFirst ==
    (~conf.data_exists \/ ~conf.template_exists) =>
        /\ ~Ran("load") /\ ~Ran("select")
        /\ runpc # "done"
        /\ (runpc = "failed" /\ result.error # "MissingCredential")
                => result.error = "FileNotFound"

\* a generation call stopped by the missing template, the data file
\* being there
C14_Witness ==
    /\ entry = "to_memory"
    /\ conf.data_exists /\ ~conf.template_exists
    /\ runpc = "failed"
    /\ result.error = "FileNotFound"
    /\ trace = <<>>

\* ============================================================
\* _align_metrics_with_labels (pptx_generator.py 525-714)
\* ============================================================

MaxMetricShapes == 2

STANDARD_IMAGE_WIDTH_EMU == 2109600
MetricDefaultPt == 30
LabelPt == 11
MinLabelPt == 8

\* a run of a paragraph: its text and font size in points (0: not set)
Run(text, size) == [text |-> text, size |-> size]

RECURSIVE AllRuns(_)
AllRuns(paragraphs) ==
    IF paragraphs = <<>> THEN <<>> ELSE Head(paragraphs) \o AllRuns(Tail(paragraphs))

\* lines 548-553: run.text = run.text.rstrip() for every run with text
CleanedParagraphs(paragraphs) ==
    [p \in DOMAIN paragraphs |->
        [r \in DOMAIN paragraphs[p] |->
            [paragraphs[p][r] EXCEPT !.text = RStripChars(@, Whitespace)]]]

\* metric_text_cleaned: the stripped text of the last run that had text,
\* empty when no run had text (None in the code, falsy like "")
MetricTextCleaned(paragraphs) ==
    LET with_text == SelectSeq(AllRuns(paragraphs), LAMBDA r : r.text # <<>>) IN
    IF with_text = <<>> THEN <<>>
    ELSE RStripChars(with_text[Len(with_text)].text, Whitespace)

\* lines 574-581: the position of the first shape on the slide named
\* after the label that has text, 0 if none
RECURSIVE FindLabel(_, _, _)
FindLabel(labels, num, from) ==
    IF from > Len(labels) THEN 0
    ELSE IF /\ labels[from].num = num
            /\ labels[from].on_slide
            /\ labels[from].text # <<>>
           THEN from
           ELSE FindLabel(labels, num, from + 1)

\* lines 594-600: the size of the first run of the first paragraph that
\* has runs, 30 when it is not set
MetricFontSize(paragraphs) ==
    LET with_runs == SelectSeq(paragraphs, LAMBDA p : p # <<>>) IN
    IF with_runs # <<>> /\ with_runs[1][1].size # 0
      THEN with_runs[1][1].size
      ELSE MetricDefaultPt

\* lines 605-616
Spaces(metric_text) ==
    IF metric_text # <<>> /\ metric_text[1] \in {"x", "X"} THEN <<" ", " ">> ELSE <<" ">>

\* lines 622-631: int((size * 0.6 * len(metric) + 11 * 0.5 * len(spaces)
\* + 11 * 0.5 * len(label)) * 12700); the float product is this integer
\* for the 30pt metrics used here (for other sizes it may come out one
\* EMU lower)
TotalWidthEmu(size, metric_text, spaces, label_text) ==
    size * 7620 * Len(metric_text) + 69850 * (Len(spaces) + Len(label_text))

\* lines 634-639
MaxAllowedWidth(slide, metric, label) ==
    IF slide = 0 THEN STANDARD_IMAGE_WIDTH_EMU ELSE metric.width + label.width

\* lines 624, 647-651: max(8, int(11 * allowed / total)) on overflow
LabelFontSize(total, allowed) ==
    IF total > allowed
      THEN LET shrunk == (LabelPt * allowed) \div total IN
           IF shrunk < MinLabelPt THEN MinLabelPt ELSE shrunk
      ELSE LabelPt

\* lines 655-682: paragraph 0 cleared and given the three runs
MergedParagraphs(paragraphs, metric_text, spaces, label_text, size, label_size) ==
    << <<Run(metric_text, size), Run(spaces, label_size), Run(label_text, label_size)>> >>
    \o Tail(paragraphs)

\* lines 688-693
CombinedWidth(slide, metric, label) ==
    LET sum == metric.width + label.width IN
    IF slide = 0 /\ sum > STANDARD_IMAGE_WIDTH_EMU THEN STANDARD_IMAGE_WIDTH_EMU ELSE sum

MetricShape(num, paragraphs, width) ==
    [num |-> num, paragraphs |-> paragraphs, width |-> width]

LabelShape(num, text, width) ==
    [num |-> num, text |-> text, width |-> width, on_slide |-> TRUE]

\* text frames of a metric shape: no run, an empty run, "7+ ", "x2" with
\* no size set, two paragraphs
MetricFrames ==
    { << <<>> >>,
      << <<Run(<<>>, 30)>> >>,
      << <<Run(<<"7", "+", " ">>, 30)>> >>,
      << <<Run(<<"x", "2">>, 0)>> >>,
      << <<Run(<<"7", "+">>, 30)>>, <<Run(<<"%">>, 30)>> >> }

LongLabel == [k \in 1..40 |-> "h"]

LabelTexts == {<<>>, <<" ">>, <<"h", "r">>, <<" ", "h", "r", "s">>, LongLabel}

MetricShapeInputs ==
    UNION {[1..n -> {MetricShape(num, f, 300000) : num \in 1..2, f \in MetricFrames}] :
           n \in 0..MaxMetricShapes}

\* at most one label shape per number
LabelShapeInputs ==
    LET choices == {<<>>} \cup
                   {<<LabelShape(1, t, w)>> : t \in LabelTexts, w \in {300000, 1500000}}
        second == {<<>>} \cup {<<LabelShape(2, t, 300000)>> : t \in {<<>>, <<"h", "r">>}}
    IN  {a \o b : a \in choices, b \in second}

InitMetrics ==
    /\ mpc = "loop"
    /\ m_slide_idx \in {0, 1}
    /\ metric_shapes \in MetricShapeInputs
    /\ label_shapes \in LabelShapeInputs
    /\ mk = 1
    /\ shapes_to_delete = <<>>
    /\ merges = <<>>
    /\ BaseIdle
    /\ LaterIdleBut("Metrics")

\* lines 544-703, the body of the loop for one metric shape
MetricsMerge ==
    /\ mpc = "loop"
    /\ mk <= Len(metric_shapes)
    /\ LET metric == metric_shapes[mk]
           cleaned == CleanedParagraphs(metric.paragraphs)
           metric_text_cleaned == MetricTextCleaned(metric.paragraphs)
           found == FindLabel(label_shapes, metric.num, 1)
           label_text == IF found = 0 THEN <<>> ELSE Strip(label_shapes[found].text)
       IN
       IF found = 0 \/ label_text = <<>>
         THEN \* line 583-585: continue
              /\ metric_shapes' = [metric_shapes EXCEPT ![mk].paragraphs = cleaned]
              /\ UNCHANGED <<shapes_to_delete, merges>>
         ELSE LET label == label_shapes[found]
                  metric_text == Strip(metric_text_cleaned)
                  size == MetricFontSize(cleaned)
                  spaces == Spaces(metric_text)
                  total == TotalWidthEmu(size, metric_text, spaces, label_text)
                  allowed == MaxAllowedWidth(m_slide_idx, metric, label)
              IN
              /\ IF metric_text_cleaned # <<>>
                   THEN /\ metric_shapes' =
                             [metric_shapes EXCEPT
                                ![mk].paragraphs =
                                    MergedParagraphs(cleaned, metric_text, spaces, label_text,
                                                     size, LabelFontSize(total, allowed)),
                                ![mk].width = CombinedWidth(m_slide_idx, metric, label)]
                        /\ merges' = Append(merges, [shape |-> mk, label |-> found,
                                                     total |-> total, allowed |-> allowed])
                   ELSE /\ metric_shapes' = [metric_shapes EXCEPT ![mk].paragraphs = cleaned]
                        /\ UNCHANGED merges
              \* line 702, outside the `if`
              /\ shapes_to_delete' = Append(shapes_to_delete, found)
    /\ mk' = mk + 1
    /\ UNCHANGED <<mpc, m_slide_idx, label_shapes, notMetrics>>

MetricsLoopDone ==
    /\ mpc = "loop"
    /\ mk > Len(metric_shapes)
    /\ mpc' = "delete"
    /\ mk' = 1
    /\ UNCHANGED <<m_slide_idx, metric_shapes, label_shapes, shapes_to_delete, merges,
                   notMetrics>>

\* lines 706-712: one marked shape is removed; removing a shape that is
\* gone already throws inside the try
MetricsDelete ==
    /\ mpc = "delete"
    /\ mk <= Len(shapes_to_delete)
    /\ label_shapes' = [label_shapes EXCEPT ![shapes_to_delete[mk]].on_slide = FALSE]
    /\ mk' = mk + 1
    /\ UNCHANGED <<mpc, m_slide_idx, metric_shapes, shapes_to_delete, merges, notMetrics>>

MetricsReturn ==
    /\ mpc = "delete"
    /\ mk > Len(shapes_to_delete)
    /\ mpc' = "returned"
    /\ UNCHANGED <<m_slide_idx, metric_shapes, label_shapes, mk, shapes_to_delete, merges,
                   notMetrics>>

NextMetrics == MetricsMerge \/ MetricsLoopDone \/ MetricsDelete \/ MetricsReturn

SpecMetrics == InitMetrics /\ [][NextMetrics]_vars

\* the label shape paired with metric shape k, 0 when there is none
\* with text left after strip()
PairedLabel(k) ==
    LET named == {l \in DOMAIN label_shapes :
                    /\ label_shapes[l].num = metric_shapes[k].num
                    /\ Strip(label_shapes[l].text) # <<>>}
    IN  IF named = {} THEN 0 ELSE CHOOSE l \in named : TRUE

\* C22: after the call every metric shape with a paired non-empty label
\* holds exactly three runs (metric, spacer, label), the label at 11pt
\* when the estimated width fits the allowed width and otherwise at the
\* proportionally reduced size, never below 8pt, and the paired label
\* shape is gone from the slide.
C22_MetricLabelMerged ==
    mpc = "returned" =>
        \A k \in DOMAIN metric_shapes :
            PairedLabel(k) # 0 =>
                LET runs == AllRuns(metric_shapes[k].paragraphs)
                    label == label_shapes[PairedLabel(k)]
                IN  /\ Len(runs) = 3
                    /\ runs[2].text \in {<<" ">>, <<" ", " ">>}
                    /\ runs[3].text = Strip(label.text)
                    /\ \E m \in DOMAIN merges :
                          /\ merges[m].shape = k
                          /\ merges[m].total <= merges[m].allowed =>
                                runs[3].size = LabelPt
                          /\ merges[m].total > merges[m].allowed =>
                                /\ runs[3].size >= MinLabelPt
                                /\ runs[3].size < LabelPt
                                /\ \/ runs[3].size = MinLabelPt
                                   \/ runs[3].size
                                        = (LabelPt * merges[m].allowed) \div merges[m].total
                    /\ ~label.on_slide

\* C28: a label shape is removed from the slide only if its text was
\* merged into a metric shape.
C28_LabelDeletedOnlyIfMerged ==
    \A l \in DOMAIN label_shapes :
        ~label_shapes[l].on_slide => \E m \in DOMAIN merges : merges[m].label = l

\* ============================================================
\* _replace_in_text_frame (pptx_generator.py 1132-1199), one paragraph
\* ============================================================

SubstDefaultPt == 18
MetricNumberPt == 30
MetricLabelPt == 11

\* f"{{{{{key}}}}}": the token of a key, as three pieces of text
Pattern(key) == <<"{{", key, "}}">>

\* str.find(pat, from): the first position >= from where pat starts, 0 if none
RECURSIVE FindSub(_, _, _)
FindSub(text, pat, from) ==
    IF from + Len(pat) - 1 > Len(text) THEN 0
    ELSE IF SubSeq(text, from, from + Len(pat) - 1) = pat THEN from
    ELSE FindSub(text, pat, from + 1)

Contains(text, pat) == FindSub(text, pat, 1) # 0

\* str.replace(pat, value)
RECURSIVE ReplaceAll(_, _, _)
ReplaceAll(text, pat, value) ==
    LET at == FindSub(text, pat, 1) IN
    IF at = 0 THEN text
    ELSE SubSeq(text, 1, at - 1) \o value
         \o ReplaceAll(SubSeq(text, at + Len(pat), Len(text)), pat, value)

\* paragraph.text: the texts of the runs, joined
RECURSIVE ParagraphText(_)
ParagraphText(runs) ==
    IF runs = <<>> THEN <<>> ELSE Head(runs).text \o ParagraphText(Tail(runs))

\* value.startswith("images/")
IsImagePath(value) == value # <<>> /\ Head(value) = "images/"

\* `"category" in key`, `"metric_label_case_study" in key`,
\* `key in ['n1', 'n2', 'n3', 'n4']`
CategoryKeys == {"case_study_1_category", "case_study_category"}
MetricLabelKeys == {"metric_label_case_study_1", "metric_label_case_study"}
MetricNumberKeys == {"n1", "n2", "n3", "n4"}

NoFlags(text) ==
    [text |-> text, has_placeholder |-> FALSE, is_infrastructure |-> FALSE,
     is_metric_label_on_slide2 |-> FALSE, is_metric_number_on_slide2 |-> FALSE]

\* lines 1144-1165: the keys of the table from position k on, in order
RECURSIVE ScanKeys(_, _, _, _)
ScanKeys(table, k, slide, st) ==
    IF k > Len(table) THEN st
    ELSE LET key == table[k][1]
             value == table[k][2]
         IN  IF ~Contains(st.text, Pattern(key)) \/ IsImagePath(value)
               THEN ScanKeys(table, k + 1, slide, st)
               ELSE ScanKeys(table, k + 1, slide,
                      [text |-> ReplaceAll(st.text, Pattern(key), value),
                       has_placeholder |-> TRUE,
                       is_infrastructure |->
                           \/ st.is_infrastructure
                           \/ (key \in CategoryKeys /\ value = <<"INFRASTRUCTURE">>),
                       is_metric_label_on_slide2 |->
                           \/ st.is_metric_label_on_slide2
                           \/ (slide = 1 /\ key \in MetricLabelKeys),
                       is_metric_number_on_slide2 |->
                           \/ st.is_metric_number_on_slide2
                           \/ (slide = 1 /\ key \in MetricNumberKeys)])

\* a faulty size rule that never touches the size: C23 must not hold
\* with it
NewSize_keepsAll(st, size) == size

\* lines 1172-1199: the size of the first run after the replacement
\* (0: not set)
NewSize(st, size) ==
    IF st.is_infrastructure
      THEN (IF size # 0 THEN size ELSE SubstDefaultPt) - 1
    ELSE IF st.is_metric_number_on_slide2 THEN MetricNumberPt
    ELSE IF st.is_metric_label_on_slide2 THEN MetricLabelPt
    ELSE size

\* lines 1179-1183: all text in the first run, the later runs emptied
Rebuilt(runs, text, size) ==
    [r \in DOMAIN runs |->
        IF r = 1 THEN Run(text, size) ELSE [runs[r] EXCEPT !.text = <<>>]]

SubstKeys ==
    <<"case_study_1_name", "case_study_1_category", "n1",
      "metric_label_case_study_1", "case_study_1_image">>

\* the values a key may have in the table; <<Absent>> when it has none
SubstValues(key) ==
    CASE key = "case_study_1_name" -> {<<"A", "c", "m", "e">>}
      [] key = "case_study_1_category" -> {Absent, <<"INFRASTRUCTURE">>, <<"MEDIA">>}
      [] key = "n1" -> {Absent, <<"7", "+">>}
      [] key = "metric_label_case_study_1" -> {Absent, <<"h", "r", "s">>}
      [] key = "case_study_1_image" ->
            {Absent, <<"images/", "a.jpg">>, DEFAULT_IMAGE_PLACEHOLDER}

\* the dict as key/value pairs in insertion order
SubstTables ==
    {SelectSeq([k \in DOMAIN SubstKeys |-> <<SubstKeys[k], choice[k]>>],
               LAMBDA pair : pair[2] # Absent) :
        choice \in {c \in [DOMAIN SubstKeys -> UNION {SubstValues(SubstKeys[k]) : k \in DOMAIN SubstKeys}] :
                        \A k \in DOMAIN SubstKeys : c[k] \in SubstValues(SubstKeys[k])}}

\* paragraphs: no run, plain text, a token in one run, a token split
\* over two runs, text around a token, two tokens
SubstParagraphs ==
    LET sizes == {0, 12} IN
    {<<>>}
    \cup {<<Run(<<"H", "i">>, s)>> : s \in sizes}
    \cup {<<Run(Pattern(key), s)>> : key \in Range(SubstKeys), s \in sizes}
    \cup {<<Run(<<"{{", key>>, s), Run(<<"}}">>, 9)>> : key \in Range(SubstKeys), s \in sizes}
    \cup {<<Run(<<"a">> \o Pattern(key), s), Run(<<"b">>, 9)>> :
            key \in Range(SubstKeys), s \in sizes}
    \cup {<<Run(Pattern("case_study_1_category") \o Pattern(key), s)>> :
            key \in {"n1", "case_study_1_image"}, s \in sizes}

InitSubst ==
    /\ sbpc = "start"
    /\ sb_slide_idx \in {0, 1}
    /\ sb_table \in SubstTables
    /\ sb_runs \in SubstParagraphs
    /\ sb_runs0 = sb_runs
    /\ BaseIdle
    /\ LaterIdleBut("Subst")

Scanned == ScanKeys(sb_table, 1, sb_slide_idx, NoFlags(ParagraphText(sb_runs)))

\* lines 1168-1199: a placeholder was found and the paragraph has runs
SubstReplace ==
    /\ sbpc = "start"
    /\ Scanned.has_placeholder
    /\ sb_runs # <<>>
    /\ sb_runs' = Rebuilt(sb_runs, Scanned.text, NewSize(Scanned, sb_runs[1].size))
    /\ sbpc' = "done"
    /\ UNCHANGED <<sb_slide_idx, sb_table, sb_runs0, notSubst>>

\* no placeholder in the paragraph, or no run: nothing is written
SubstLeave ==
    /\ sbpc = "start"
    /\ ~(Scanned.has_placeholder /\ sb_runs # <<>>)
    /\ sbpc' = "done"
    /\ UNCHANGED <<sb_slide_idx, sb_table, sb_runs, sb_runs0, notSubst>>

NextSubst == SubstReplace \/ SubstLeave

SpecSubst == InitSubst /\ [][NextSubst]_vars

\* the keys of the table whose token stands in the paragraph as it was and
\* whose value is no image path
TokensPresent ==
    {k \in DOMAIN sb_table :
        /\ Contains(ParagraphText(sb_runs0), Pattern(sb_table[k][1]))
        /\ ~IsImagePath(sb_table[k][2])}

PresentIn(keys) == \E k \in TokensPresent : sb_table[k][1] \in keys

InfrastructurePresent ==
    \E k \in TokensPresent :
        sb_table[k][1] \in CategoryKeys /\ sb_table[k][2] = <<"INFRASTRUCTURE">>

SizeBefore == IF sb_runs0[1].size # 0 THEN sb_runs0[1].size ELSE SubstDefaultPt

\* what every paragraph with a token must look like, given whether its
\* first run is to be shrunk by one point
Substituted(shrunk) ==
    /\ Len(sb_runs) = Len(sb_runs0)
    /\ sb_runs[1].text =
         ScanKeys(sb_table, 1, sb_slide_idx, NoFlags(ParagraphText(sb_runs0))).text
    /\ \A k \in TokensPresent : ~Contains(sb_runs[1].text, Pattern(sb_table[k][1]))
    /\ \A r \in 2..Len(sb_runs) : sb_runs[r].text = <<>>
    /\ sb_runs[1].size =
         IF shrunk THEN SizeBefore - 1
         ELSE IF sb_slide_idx = 1 /\ PresentIn(MetricNumberKeys) THEN MetricNumberPt
         ELSE IF sb_slide_idx = 1 /\ PresentIn(MetricLabelKeys) THEN MetricLabelPt
         ELSE sb_runs0[1].size

\* C23 as stated: in a paragraph with a token the text goes to the first
\* run, later runs are emptied, the size is kept except that any category
\* text is shrunk by 1pt and (slide 1) number 30pt, label 11pt; other
\* paragraphs are unchanged.
C23_AnyCategoryShrunk ==
    sbpc = "done" =>
        IF TokensPresent # {} /\ sb_runs0 # <<>>
          THEN Substituted(PresentIn(CategoryKeys))
          ELSE sb_runs = sb_runs0

\* C23: in a paragraph with a token the whole replaced text is in the
\* first run and later runs are empty; the first run is one point smaller
\* when a category token with the value INFRASTRUCTURE was replaced,
\* otherwise 30pt for a metric number and 11pt for a metric label on slide
\* index 1, otherwise as it was; paragraphs without a token, or with only
\* tokens of image paths, are unchanged.
C23_TokenSubstitution ==
    sbpc = "done" =>
        IF TokensPresent # {} /\ sb_runs0 # <<>>
          THEN Substituted(InfrastructurePresent)
          ELSE sb_runs = sb_runs0

C23_Witness ==
    /\ sbpc = "done"
    /\ InfrastructurePresent
    /\ Len(sb_runs0) = 2
    /\ sb_runs0[2].text # <<>>
    /\ sb_runs[2].text = <<>>
    /\ sb_runs[1].size = 11

\* ============================================================
\* _align_title_line_description (pptx_generator.py 221-522), the font
\* size of the description of one slot (lines 430-466 and 484-520)
\* ============================================================

ShortDescription == 100
MediumDescription == 150
LongDescription == 200
LongDescriptionPt == 6

\* a run of a description: the number of characters and the size (0: the
\* run has no size of its own)
DescRun(length, size) == [length |-> length, size |-> size]

RECURSIVE SumLengths(_)
SumLengths(runs) ==
    IF runs = <<>> THEN 0 ELSE Head(runs).length + SumLengths(Tail(runs))

\* len(desc_shape.text): the paragraphs joined by one line break each
RECURSIVE DescTextLength(_)
DescTextLength(paragraphs) ==
    IF paragraphs = <<>> THEN 0
    ELSE SumLengths(Head(paragraphs))
         + (IF Len(paragraphs) > 1 THEN 1 ELSE 0)
         + DescTextLength(Tail(paragraphs))

RECURSIVE FirstSized(_)
FirstSized(runs) ==
    IF runs = <<>> THEN 0
    ELSE IF Head(runs).size # 0 THEN Head(runs).size
    ELSE FirstSized(Tail(runs))

\* lines 434-442: the size of the first run that has one, 0 if none has
RECURSIVE CurrentFontSize(_)
CurrentFontSize(paragraphs) ==
    IF paragraphs = <<>> THEN 0
    ELSE IF FirstSized(Head(paragraphs)) # 0 THEN FirstSized(Head(paragraphs))
    ELSE CurrentFontSize(Tail(paragraphs))

\* a faulty rule whose first threshold takes 100 characters as short: C24
\* must not hold with it
DescriptionFontSize_inclusive(original_pt, desc_text_length) ==
    IF desc_text_length <= ShortDescription THEN original_pt + 2
    ELSE IF desc_text_length < MediumDescription THEN original_pt + 1
    ELSE IF desc_text_length > LongDescription THEN LongDescriptionPt
    ELSE original_pt

\* lines 444-460: new_size_pt
DescriptionFontSize(original_pt, desc_text_length) ==
    IF desc_text_length < ShortDescription THEN original_pt + 2
    ELSE IF desc_text_length < MediumDescription THEN original_pt + 1
    ELSE IF desc_text_length > LongDescription THEN LongDescriptionPt
    ELSE original_pt

\* lines 462-466: every run of every paragraph gets the size
Resized(paragraphs, size) ==
    [p \in DOMAIN paragraphs |->
        [r \in DOMAIN paragraphs[p] |-> [paragraphs[p][r] EXCEPT !.size = size]]]

\* lines 431-466 (with the line) and 485-520 (without it)
AdjustDescription(paragraphs) ==
    LET desc_text_length == DescTextLength(paragraphs)
        current_font_size == CurrentFontSize(paragraphs)
    IN  IF desc_text_length = 0 \/ current_font_size = 0 THEN paragraphs
        ELSE LET new_size_pt == DescriptionFontSize(current_font_size, desc_text_length)
             IN  IF new_size_pt # current_font_size
                   THEN Resized(paragraphs, new_size_pt)
                   ELSE paragraphs

DescLengths == {0, 1, 98, 99, 100, 148, 149, 150, 199, 200, 201, 250}
DescSizes == {0, 6, 12}

DescriptionInputs ==
    {<<<<DescRun(n, s)>>>> : n \in DescLengths, s \in DescSizes}
    \cup {<<<<DescRun(n, s), DescRun(1, t)>>>> :
            n \in DescLengths, s \in DescSizes, t \in DescSizes}
    \cup {<<<<DescRun(n, s)>>, <<DescRun(1, 12)>>>> :
            n \in DescLengths, s \in DescSizes}

InitAlign ==
    /\ alpc = "start"
    /\ al_title \in BOOLEAN
    /\ al_line \in BOOLEAN
    /\ al_paragraphs \in DescriptionInputs
    /\ al_paragraphs0 = al_paragraphs
    /\ BaseIdle
    /\ LaterIdleBut("Align")

\* lines 247-249: a slot without a title shape is skipped
AlignSkip ==
    /\ alpc = "start"
    /\ ~al_title
    /\ alpc' = "done"
    /\ UNCHANGED <<al_title, al_line, al_paragraphs, al_paragraphs0, notAlign>>

\* lines 402-466: the description of a slot that has its divider line
AlignWithLine ==
    /\ alpc = "start"
    /\ al_title
    /\ al_line
    /\ al_paragraphs' = AdjustDescription(al_paragraphs)
    /\ alpc' = "done"
    /\ UNCHANGED <<al_title, al_line, al_paragraphs0, notAlign>>

\* lines 467-520: the description of a slot without a divider line
AlignWithoutLine ==
    /\ alpc = "start"
    /\ al_title
    /\ ~al_line
    /\ al_paragraphs' = AdjustDescription(al_paragraphs)
    /\ alpc' = "done"
    /\ UNCHANGED <<al_title, al_line, al_paragraphs0, notAlign>>

NextAlign == AlignSkip \/ AlignWithLine \/ AlignWithoutLine

SpecAlign == InitAlign /\ [][NextAlign]_vars

AllDescRuns(paragraphs) ==
    UNION {Range(paragraphs[p]) : p \in DOMAIN paragraphs}

MaxImageCases == 3
\* MIN_IMAGE_SIZE, and the area of the standard image, in 10^9 EMU^2
MinImageSize == 1500
StandardImageArea == 4556
LargeLimit == 4
NoImageNumber == 999

\* a picture shape: where it comes from (<<"template">> or the path of the
\* inserted file), the first number in its name (NoImageNumber: none),
\* its position and width * height
Picture(source, number, left, top, area) ==
    [source |-> source, number |-> number, left |-> left, top |-> top, area |-> area]

\* lines 892: size >= MIN_IMAGE_SIZE
IsLarge(shape) == shape.area >= MinImageSize

\* list.sort(key=get_image_number): stable, ascending
RECURSIVE InsertByNumber(_, _)
InsertByNumber(sorted, shape) ==
    IF sorted = <<>> THEN <<shape>>
    ELSE IF shape.number < Head(sorted).number THEN <<shape>> \o sorted
    ELSE <<Head(sorted)>> \o InsertByNumber(Tail(sorted), shape)

RECURSIVE SortByNumber(_)
SortByNumber(shapes) ==
    IF shapes = <<>> THEN <<>>
    ELSE InsertByNumber(SortByNumber(SubSeq(shapes, 1, Len(shapes) - 1)),
                        shapes[Len(shapes)])

\* lines 878-915: large_picture_shapes
LargePictureShapes(shapes) ==
    Take(SortByNumber(SelectSeq(shapes, IsLarge)), LargeLimit)

\* lines 941-945: the keys whose value is an image path, in key order
ActiveImages(values) ==
    SelectSeq([k \in DOMAIN values |-> [key |-> k, value |-> values[k]]],
              LAMBDA a : IsImagePath(a.value))

RECURSIVE MinTop(_)
MinTop(shapes) ==
    IF Len(shapes) = 1 THEN shapes[1].top
    ELSE LET rest == MinTop(Tail(shapes))
         IN  IF Head(shapes).top < rest THEN Head(shapes).top ELSE rest

\* lines 950-956: width * height of the inserted pictures
StandardArea(slide, large) ==
    IF slide = 0 \/ large = <<>> THEN StandardImageArea ELSE large[1].area

\* lines 975-1003: the active images that have a shape and a file
Matched(slide, values, files, shapes) ==
    LET large == LargePictureShapes(shapes)
        active == ActiveImages(values)
    IN  SelectSeq([ai \in DOMAIN active |->
                      [idx |-> ai, key |-> active[ai].key, path |-> active[ai].value]],
                  LAMBDA m : m.idx <= Len(large) /\ files[m.path] # "missing")

ImagesToAdd(slide, values, files, shapes) ==
    LET large == LargePictureShapes(shapes)
        matched == Matched(slide, values, files, shapes)
    IN  [j \in DOMAIN matched |->
            Picture(matched[j].path, NoImageNumber, large[matched[j].idx].left,
                    MinTop(large), StandardArea(slide, large))]

ShapesToRemove(slide, values, files, shapes) ==
    LET large == LargePictureShapes(shapes)
        matched == Matched(slide, values, files, shapes)
    IN  {large[matched[j].idx] : j \in DOMAIN matched}

CaseImage(k) == ImagePath(<<k>>)

\* case_study_k_image of the selected cases: a path or the placeholder text
ImageValueInputs ==
    UNION {[1..n -> {DEFAULT_IMAGE_PLACEHOLDER}] \cup
           {v \in [1..n -> {DEFAULT_IMAGE_PLACEHOLDER} \cup {CaseImage(k) : k \in 1..n}] :
                \A k \in 1..n : v[k] \in {DEFAULT_IMAGE_PLACEHOLDER, CaseImage(k)}} :
           n \in 0..MaxImageCases}

\* the files under the project root: all readable, or one missing, or one
\* that the image library cannot open, crop or save
ImageFileInputs ==
    LET paths == {CaseImage(k) : k \in 1..MaxImageCases} IN
    {[p \in paths |-> "ok"]}
    \cup {[p \in paths |-> IF p = bad THEN status ELSE "ok"] :
            bad \in paths, status \in {"missing", "unreadable"}}

TemplatePicture(number, left, top, area) == Picture(<<"template">>, number, left, top, area)

\* the pictures of a slide: "Image 0" .. "Image 4" side by side, an icon
\* and a picture without a number in its name
SlidePictureInputs ==
    LET img(n) == TemplatePicture(n, 10 + 30 * n, 50, 4000)
        icon == TemplatePicture(7, 5, 5, 100)
        plain == TemplatePicture(NoImageNumber, 200, 40, 3000)
    IN  {<<>>, <<icon>>, <<img(0)>>, <<img(0), img(1)>>, <<img(1), icon, img(0)>>,
         <<img(0), img(1), img(2)>>, <<img(2), img(0), img(1)>>,
         <<plain, img(1), img(0)>>,
         <<img(0), img(1), img(2), img(3), img(4)>>}

InitImages ==
    /\ impc = "match"
    /\ im_slide_idx \in {0, 1}
    /\ im_values \in ImageValueInputs
    /\ im_files \in ImageFileInputs
    /\ im_shapes \in SlidePictureInputs
    /\ im_shapes0 = im_shapes
    /\ images_to_add = <<>>
    /\ shapes_to_remove = {}
    /\ BaseIdle
    /\ LaterIdleBut("Images")

\* lines 874-1003: collect, sort and match
ImagesMatch ==
    /\ impc = "match"
    /\ images_to_add' = ImagesToAdd(im_slide_idx, im_values, im_files, im_shapes)
    /\ shapes_to_remove' = ShapesToRemove(im_slide_idx, im_values, im_files, im_shapes)
    /\ impc' = "remove"
    /\ UNCHANGED <<im_slide_idx, im_values, im_files, im_shapes, im_shapes0, notImages>>

\* lines 1013-1019: the matched placeholders leave the slide
ImagesRemove ==
    /\ impc = "remove"
    /\ im_shapes' = SelectSeq(im_shapes, LAMBDA s : s \notin shapes_to_remove)
    /\ shapes_to_remove' = {}
    /\ impc' = "insert"
    /\ UNCHANGED <<im_slide_idx, im_values, im_files, im_shapes0, images_to_add, notImages>>

\* lines 1025-1044: crop (slide 0), add the picture, send it to the back
ImagesInsert ==
    /\ impc = "insert"
    /\ images_to_add # <<>>
    /\ im_files[Head(images_to_add).source] = "ok"
    /\ im_shapes' = <<Head(images_to_add)>> \o im_shapes
    /\ images_to_add' = Tail(images_to_add)
    /\ UNCHANGED <<impc, im_slide_idx, im_values, im_files, im_shapes0,
                   shapes_to_remove, notImages>>

\* lines 1045-1046: cropping or inserting raised; a warning is printed
ImagesInsertFails ==
    /\ impc = "insert"
    /\ images_to_add # <<>>
    /\ im_files[Head(images_to_add).source] = "unreadable"
    /\ images_to_add' = Tail(images_to_add)
    /\ UNCHANGED <<impc, im_slide_idx, im_values, im_files, im_shapes, im_shapes0,
                   shapes_to_remove, notImages>>

ImagesReturn ==
    /\ impc = "insert"
    /\ images_to_add = <<>>
    /\ impc' = "done"
    /\ UNCHANGED <<im_slide_idx, im_values, im_files, im_shapes, im_shapes0,
                   images_to_add, shapes_to_remove, notImages>>

NextImages ==
    ImagesMatch \/ ImagesRemove \/ ImagesInsert \/ ImagesInsertFails \/ ImagesReturn

SpecImages == InitImages /\ [][NextImages]_vars

\* C25: when the call returns, every inserted picture that shows the image
\* of case k stands at the left position of the k-th large picture shape
\* of the slide.
C25_ImageAtItsSlot ==
    impc = "done" =>
        \A s \in Range(im_shapes) : \A k \in DOMAIN im_values :
            s.source = CaseImage(k) =>
                /\ k <= Len(LargePictureShapes(im_shapes0))
                /\ s.left = LargePictureShapes(im_shapes0)[k].left

\* C27: when the call returns, the slide has as many large pictures as it
\* had before the call.
C27_RemovedPicturesReplaced ==
    impc = "done" =>
        Len(SelectSeq(im_shapes, IsLarge)) = Len(SelectSeq(im_shapes0, IsLarge))

\* ============================================================
\* _find_similar_company_metric and _find_similar_company_image
\* (ai_selector.py 303-424) over data files of more than 20 records
\* ============================================================

MaxCandidates == 22
PromptLimit == 20

\* available_cases[:20]: the candidates the prompt lists
Listed(available) == Take(available, PromptLimit)

\* n records that all differ in image and metric
Catalog(n) ==
    [k \in 1..n |->
        CaseRecord(<<"B", ToString(k)>>, DealTitle, Text, <<ToString(k), ".jpg">>,
                   <<ToString(k), "%">>, Absent)]

InitLookup ==
    /\ lkpc = "metric"
    /\ \E n \in 0..MaxCandidates : lk_cases = Catalog(n)
    /\ lk_answer \in LookupAnswers(MaxCandidates + 1)
    /\ lk_metric = NoMatch
    /\ lk_image = NoMatch
    /\ BaseIdle
    /\ LaterIdleBut("Lookup")

LookupMetric ==
    /\ lkpc = "metric"
    /\ lk_metric' = FindSimilarMetric(lk_cases, {}, lk_answer)
    /\ lkpc' = "image"
    /\ UNCHANGED <<lk_cases, lk_answer, lk_image, notLookup>>

LookupImage ==
    /\ lkpc = "image"
    /\ lk_image' = FindSimilarImage(lk_cases, {}, lk_answer)
    /\ lkpc' = "done"
    /\ UNCHANGED <<lk_cases, lk_answer, lk_metric, notLookup>>

NextLookup == LookupMetric \/ LookupImage

SpecLookup == InitLookup /\ [][NextLookup]_vars

\* C29: a lookup that returns a value returns the metric (the image) of
\* one of the candidates the prompt listed, the first 20 available ones.
C29_ResultWasListed ==
    lkpc = "done" =>
        /\ lk_metric.ok =>
             \E cs \in Range(Listed(MetricCandidates(lk_cases, {}))) :
                 cs.metric = lk_metric.value
        /\ lk_image.ok =>
             \E cs \in Range(Listed(ImageCandidates(lk_cases, {}))) :
                 cs.image_file = lk_image.value

\* ============================================================
\* composite
\* ============================================================

Init == InitFilter \/ InitSelect \/ InitFormat \/ InitFormatSingle \/ InitFormatLookup \/ InitFormatPair \/ InitWrap \/ InitRequest \/ InitShapes \/ InitRun \/ InitMetrics \/ InitSubst \/ InitAlign \/ InitImages \/ InitLookup

Next == NextFilter \/ NextSelect \/ NextFormat \/ NextWrap \/ NextRequest \/ NextShapes \/ NextRun \/ NextMetrics \/ NextSubst \/ NextAlign \/ NextImages \/ NextLookup

Spec == Init /\ [][Next]_vars

====
